---- MODULE Spec2Model ----
(***************************************************************************)
(* Vision-to-move decoding pipeline of otb-chess-analysis.                 *)
(*                                                                         *)
(*   SpecTag      conflict resolution of detect_piece_tags                 *)
(*                (otbreview/pipeline/tag_detector.py)                     *)
(*   SpecSampler  extract_stable_frames and extract_stable_frames_debug    *)
(*                (otbreview/pipeline/extract.py)                          *)
(*   SpecDecode   infer_moves_from_id_grids (otbreview/pipeline/           *)
(*                tag_decode.py) and decode_moves (pipeline/decode.py)     *)
(*   SpecPipeline analyze_video (otbreview/pipeline/main.py) under the     *)
(*                analyze command (otbreview/cli.py)                       *)
(*   SpecPgn      generate_pgn and generate_moves_json                     *)
(*                (otbreview/pipeline/pgn.py)                              *)
(*   SpecReview   analyze_game, classify_moves and find_key_moves          *)
(*                (pipeline/analyze.py, classify.py, keymoves.py)          *)
(*   SpecDebugSampler  extract_stable_frames_debug alone, with the loop    *)
(*                scheduled fairly                                         *)
(*   SpecMap      load_piece_id_map and _init_board_from_map               *)
(*                (otbreview/pipeline/tag_decode.py)                       *)
(*   SpecListener the inbox listener (scripts/otb_listener.py)             *)
(***************************************************************************)
EXTENDS Integers, Sequences, FiniteSets, TLC

VARIABLES
    \* ---- detect_piece_tags ------------------------------------------------
    best_detections,   \* detections of the winning preprocessing candidate
    tpc,               \* position inside detect_piece_tags
    ti,                \* index of the loop that is running
    best_by_cell,      \* dict (row, col) -> detection, in insertion order
    best_by_id,        \* dict marker_id -> detection, in insertion order
    conflict_log,      \* list of conflict records
    board_ids,         \* the 8x8 output grid
    \* ---- extract_stable_frames / extract_stable_frames_debug -------------
    sp,                \* which sampler runs and its parameters
    video,             \* picture shown by each source frame (0-based position p is video[p + 1])
    cap_pos,           \* position of the video reader: next frame cap.read() returns
    spc,               \* "loop" while the main loop runs, then "done"
    frame_idx,
    prev_frame,        \* source position of the frame kept in prev_frame, NoFrame for None
    stable_counter,
    stable_start_idx,  \* NoFrame for None
    saved_count,
    last_saved_idx,
    stable_frames,     \* emitted frames: output index, source position, and the run that produced them
    motion_data,       \* rows of motion.csv
    run,               \* history: source positions of the frames read in the current below-threshold run
    \* ---- infer_moves_from_id_grids / decode_moves -------------------------
    decoder,           \* "tag" (infer_moves_from_id_grids) or "occupancy" (decode_moves)
    piece_map,         \* PieceMap: id -> symbol and initial square
    scenario,          \* which family of observations is fed to the decoder
    board,             \* the canonical chess.Board
    last_obs,          \* the observation read last (board_grids[idx - 1])
    prev_positions,    \* prev_positions (tag) / prev_occupancy (occupancy)
    moves_san,
    move_debug,        \* move_debug (tag) / confidence_list (occupancy)
    uncertain,
    n_grids,           \* number of observations handed to the decoder so far
    dpc,               \* "loop", then "returned" or "raised"
    entry_pair,        \* history: for each entry of moves_san the pair index that produced it
    rights,            \* history: castling rights the game itself still has
    actual,            \* history: the position on the filmed board (tag decoder)
    \* ---- analyze_command / analyze_video ----------------------------------
    ppc,               \* position inside the run
    input_exists,      \* the --input path exists
    use_markers,
    engine_found,      \* find_stockfish() returns a path
    prior,             \* state of the output files before the run
    stable_count,      \* len(stable_frames), NotSampled before the sampler returned
    frame_i,           \* index of the stable frame the locating loop is at
    last_locate,       \* what the board locator saw and answered for the frame located last
    warped_boards,
    moves,             \* the list returned by infer_moves_from_id_grids
    files,             \* state of each output file
    error,             \* the exception that ended analyze_video, NoError if none
    exit_status,       \* exit status of the command line, Running while it runs
    \* ---- generate_pgn / generate_moves_json ------------------------------
    pfunc,             \* which of the two functions runs
    script,            \* the game the entries of the move list are taken from
    ply,               \* number of moves of that game played so far
    position,          \* the function's chess.Board with its two move counters
    n_entries,         \* number of entries of the move list read so far
    n_offscript,       \* how many of them were placeholders, garbage or UCI strings
    trace,             \* the list generate_moves_json builds
    result,            \* the Result header generate_pgn returned
    gpc,               \* "loop", then "returned"
    \* ---- review of a game (analyze.py, classify.py, keymoves.py) ---------
    scores,            \* engine score of each position, for the side to move
    analysis,          \* the records analyze_game builds from them
    classified,        \* return value of classify_moves
    key_moves,         \* return value of find_key_moves
    rpc,               \* "analyse", "classify", "key_moves", "returned", "raised"
    \* ---- load_piece_id_map and _init_board_from_map (tag_decode.py) -------
    map_data,          \* the object read from piece_id_map.json
    parsed,            \* the dict load_piece_id_map returned
    canonical,         \* the board _init_board_from_map built from it
    mpc,               \* "load", "loaded", "rejected", "ready", "raised"
    \* ---- otb_listener ----------------------------------------------------
    inbox,             \* file name -> content of the files in the inbox (NoFile: absent)
    listing,           \* the items process_existing still has to visit
    events,            \* created/moved events the observer has not dispatched yet
    clock,             \* datetime.now() in whole seconds
    work,              \* destination path -> content of the files under work/
    manifest,          \* timestamp -> sha256 written to work/<timestamp>/manifest.json
    processed,         \* the processed dict, as saved to processed.json
    n_arrived,         \* number of files that have been put into the inbox
    lpc                \* position inside main()

tagVars == <<best_detections, tpc, ti, best_by_cell, best_by_id, conflict_log, board_ids>>

samplerVars == <<sp, video, cap_pos, spc, frame_idx, prev_frame, stable_counter, stable_start_idx,
                 saved_count, last_saved_idx, stable_frames, motion_data, run>>

decodeVars == <<decoder, piece_map, scenario, board, last_obs, prev_positions, moves_san,
                move_debug, uncertain, n_grids, dpc, entry_pair, rights, actual>>

pipelineVars == <<ppc, input_exists, use_markers, engine_found, prior, stable_count, frame_i,
                  last_locate, warped_boards, moves, files, error, exit_status>>

mapVars == <<map_data, parsed, canonical, mpc>>
listenerVars == <<inbox, listing, events, clock, work, manifest, processed, n_arrived, lpc>>
reviewVars == <<scores, analysis, classified, key_moves, rpc>>
pgnVars == <<pfunc, script, ply, position, n_entries, n_offscript, trace, result, gpc>>

vars == <<tagVars, samplerVars, decodeVars, pipelineVars, pgnVars, reviewVars, mapVars,
          listenerVars>>

otherThanTag == <<samplerVars, decodeVars, pipelineVars, pgnVars, reviewVars, mapVars,
                     listenerVars>>
otherThanSampler == <<tagVars, decodeVars, pipelineVars, pgnVars, reviewVars, mapVars,
                     listenerVars>>
otherThanDecode == <<tagVars, samplerVars, pipelineVars, pgnVars, reviewVars, mapVars,
                     listenerVars>>
otherThanPipeline == <<tagVars, samplerVars, decodeVars, pgnVars, reviewVars, mapVars,
                     listenerVars>>
otherThanPgn == <<tagVars, samplerVars, decodeVars, pipelineVars, reviewVars, mapVars,
                     listenerVars>>
otherThanReview == <<tagVars, samplerVars, decodeVars, pipelineVars, pgnVars, mapVars,
                     listenerVars>>
otherThanMap == <<tagVars, samplerVars, decodeVars, pipelineVars, pgnVars, reviewVars,
                  listenerVars>>
otherThanListener == <<tagVars, samplerVars, decodeVars, pipelineVars, pgnVars, reviewVars,
                       mapVars>>

(***************************************************************************)
(* Bounds of the tag detector model.                                       *)
(***************************************************************************)
MaxDets == 3
MaxId == 2
MaxScore == 2

\* cells of the rectified board that carry detections in the model
DetCells == {<<0, 1>>, <<7, 7>>}

Rows == 0..7
Cols == 0..7

TagDetection == [marker_id : 1..MaxId, row : {c[1] : c \in DetCells},
                 col : {c[2] : c \in DetCells}, score : 1..MaxScore]

DetectionLists ==
    UNION {[1..n -> {d \in TagDetection : <<d.row, d.col>> \in DetCells}] : n \in 0..MaxDets}

EmptyGrid == [r \in Rows |-> [c \in Cols |-> 0]]

NoFrame == -1

\* no video has been opened
SamplerIdle ==
    /\ sp = [sampler |-> "none"]
    /\ video = <<>>
    /\ cap_pos = 0
    /\ spc = "idle"
    /\ frame_idx = 0
    /\ prev_frame = NoFrame
    /\ stable_counter = 0
    /\ stable_start_idx = NoFrame
    /\ saved_count = 0
    /\ last_saved_idx = 0
    /\ stable_frames = <<>>
    /\ motion_data = <<>>
    /\ run = <<>>

\* dict.get on an insertion-ordered dict kept as a sequence of its values
IndexOfCell(d, key) ==
    IF \E k \in 1..Len(d) : <<d[k].row, d[k].col>> = key
    THEN CHOOSE k \in 1..Len(d) : <<d[k].row, d[k].col>> = key
    ELSE 0

IndexOfId(d, id) ==
    IF \E k \in 1..Len(d) : d[k].marker_id = id
    THEN CHOOSE k \in 1..Len(d) : d[k].marker_id = id
    ELSE 0

\* tag_detector.py:154  `det.score > prev.score`
CellWins(det, prev) == det.score > prev.score

IdWinsFlipped(det, prev) == det.score < prev.score

\* tag_detector.py:183  `det.score > prev.score`
IdWins(det, prev) == det.score > prev.score

Step2InputRaw == best_detections

\* tag_detector.py:181  `for det in best_by_cell.values()`
Step2Input == best_by_cell

CellLogEntry(key, prev, det) ==
    [reason |-> "cell", cell |-> key,
     kept_id |-> prev.marker_id, discarded_id |-> det.marker_id,
     kept_score |-> prev.score, discarded_score |-> det.score]

IdLogEntry(prev, det) ==
    [reason |-> "id", marker_id |-> det.marker_id,
     kept_cell |-> <<prev.row, prev.col>>, discarded_cell |-> <<det.row, det.col>>,
     kept_score |-> prev.score, discarded_score |-> det.score]

\* no decoder has been called
DecodeIdle ==
    /\ decoder = "none"
    /\ piece_map = <<>>
    /\ scenario = "none"
    /\ board = <<>>
    /\ last_obs = <<>>
    /\ prev_positions = <<>>
    /\ moves_san = <<>>
    /\ move_debug = <<>>
    /\ uncertain = <<>>
    /\ n_grids = 0
    /\ dpc = "idle"
    /\ entry_pair = <<>>
    /\ rights = {}
    /\ actual = <<>>

\* neither generate_pgn nor generate_moves_json has been called
PgnIdle ==
    /\ pfunc = "none"
    /\ script = "none"
    /\ ply = 0
    /\ position = <<>>
    /\ n_entries = 0
    /\ n_offscript = 0
    /\ trace = <<>>
    /\ result = ""
    /\ gpc = "idle"

ReviewIdle ==
    /\ scores = <<>>
    /\ analysis = <<>>
    /\ classified = <<>>
    /\ key_moves = <<>>
    /\ rpc = "idle"

\* no piece map has been read
MapIdle ==
    /\ map_data = <<>>
    /\ parsed = <<>>
    /\ canonical = <<>>
    /\ mpc = "idle"

\* the listener has not been started
ListenerIdle ==
    /\ inbox = <<>>
    /\ listing = <<>>
    /\ events = <<>>
    /\ clock = 0
    /\ work = <<>>
    /\ manifest = <<>>
    /\ processed = <<>>
    /\ n_arrived = 0
    /\ lpc = "idle"

\* no run has been started
PipelineIdle ==
    /\ ppc = "idle"
    /\ input_exists = FALSE
    /\ use_markers = FALSE
    /\ engine_found = FALSE
    /\ prior = "absent"
    /\ stable_count = 0
    /\ frame_i = 0
    /\ last_locate = <<>>
    /\ warped_boards = <<>>
    /\ moves = <<>>
    /\ files = <<>>
    /\ error = <<>>
    /\ exit_status = 0

\* the detector has not been called
TagIdle ==
    /\ best_detections = <<>>
    /\ tpc = "idle"
    /\ ti = 1
    /\ best_by_cell = <<>>
    /\ best_by_id = <<>>
    /\ conflict_log = <<>>
    /\ board_ids = EmptyGrid

TagInit ==
    /\ SamplerIdle
    /\ DecodeIdle
    /\ PipelineIdle
    /\ MapIdle
    /\ ListenerIdle
    /\ ReviewIdle
    /\ PgnIdle
    /\ best_detections \in DetectionLists
    /\ tpc = "step1"
    /\ ti = 1
    /\ best_by_cell = <<>>
    /\ best_by_id = <<>>
    /\ conflict_log = <<>>
    /\ board_ids = EmptyGrid

\* one iteration of the Step1 loop (same cell keeps the best score)
Step1 ==
    /\ tpc = "step1"
    /\ ti <= Len(best_detections)
    /\ LET det == best_detections[ti]
           key == <<det.row, det.col>>
           k == IndexOfCell(best_by_cell, key)
       IN IF k = 0
          THEN /\ best_by_cell' = Append(best_by_cell, det)
               /\ conflict_log' = conflict_log
          ELSE IF CellWins(det, best_by_cell[k])
               THEN /\ conflict_log' = Append(conflict_log, CellLogEntry(key, best_by_cell[k], det))
                    /\ best_by_cell' = [best_by_cell EXCEPT ![k] = det]
               ELSE /\ conflict_log' = Append(conflict_log, CellLogEntry(key, best_by_cell[k], det))
                    /\ best_by_cell' = best_by_cell
    /\ ti' = ti + 1
    /\ UNCHANGED <<best_detections, tpc, best_by_id, board_ids>>
    /\ UNCHANGED otherThanTag

Step1Done ==
    /\ tpc = "step1"
    /\ ti > Len(best_detections)
    /\ tpc' = "step2"
    /\ ti' = 1
    /\ UNCHANGED <<best_detections, best_by_cell, best_by_id, conflict_log, board_ids>>
    /\ UNCHANGED otherThanTag

\* one iteration of the Step2 loop (same id keeps the best score)
Step2 ==
    /\ tpc = "step2"
    /\ ti <= Len(Step2Input)
    /\ LET det == Step2Input[ti]
           k == IndexOfId(best_by_id, det.marker_id)
       IN IF k = 0
          THEN /\ best_by_id' = Append(best_by_id, det)
               /\ conflict_log' = conflict_log
          ELSE IF IdWins(det, best_by_id[k])
               THEN /\ conflict_log' = Append(conflict_log, IdLogEntry(best_by_id[k], det))
                    /\ best_by_id' = [best_by_id EXCEPT ![k] = det]
               ELSE /\ conflict_log' = Append(conflict_log, IdLogEntry(best_by_id[k], det))
                    /\ best_by_id' = best_by_id
    /\ ti' = ti + 1
    /\ UNCHANGED <<best_detections, tpc, best_by_cell, board_ids>>
    /\ UNCHANGED otherThanTag

RECURSIVE WriteGrid(_, _, _)
WriteGrid(grid, dets, k) ==
    IF k > Len(dets) THEN grid
    ELSE WriteGrid([grid EXCEPT ![dets[k].row][dets[k].col] = dets[k].marker_id], dets, k + 1)

\* final_dets = list(best_by_id.values()); board_ids[det.row][det.col] = det.marker_id
BuildGrid ==
    /\ tpc = "step2"
    /\ ti > Len(Step2Input)
    /\ board_ids' = WriteGrid(EmptyGrid, best_by_id, 1)
    /\ tpc' = "done"
    /\ UNCHANGED <<best_detections, ti, best_by_cell, best_by_id, conflict_log>>
    /\ UNCHANGED otherThanTag

TagNext == Step1 \/ Step1Done \/ Step2 \/ BuildGrid

SpecTag == TagInit /\ [][TagNext]_vars

(***************************************************************************)
(* Claims about detect_piece_tags                                          *)
(***************************************************************************)
final_dets == best_by_id

CellsHolding(id) == {rc \in Rows \X Cols : board_ids[rc[1]][rc[2]] = id}

\* C1: in the grid returned by detect_piece_tags every non-zero id sits in at
\* most one cell, and every cell holds 0 or the id of exactly one retained
\* detection.
C1_GridWellFormed ==
    tpc = "done" =>
        /\ \A id \in 1..(MaxId + 1) : Cardinality(CellsHolding(id)) <= 1
        /\ \A rc \in Rows \X Cols :
              LET here == {k \in 1..Len(final_dets) :
                              <<final_dets[k].row, final_dets[k].col>> = rc}
              IN IF board_ids[rc[1]][rc[2]] = 0
                 THEN here = {}
                 ELSE /\ Cardinality(here) = 1
                      /\ \A k \in here : final_dets[k].marker_id = board_ids[rc[1]][rc[2]]

C1_Witness ==
    /\ tpc = "done"
    /\ \E a, b \in 1..Len(best_detections) :
          /\ a # b
          /\ best_detections[a].marker_id # best_detections[b].marker_id
          /\ best_detections[a].row = best_detections[b].row
          /\ best_detections[a].col = best_detections[b].col
    /\ \E a, b \in 1..Len(best_detections) :
          /\ best_detections[a].marker_id = best_detections[b].marker_id
          /\ <<best_detections[a].row, best_detections[a].col>>
                # <<best_detections[b].row, best_detections[b].col>>

DetCellsOf(dets, id) ==
    {<<dets[k].row, dets[k].col>> : k \in {j \in 1..Len(dets) : dets[j].marker_id = id}}

TopCellsOf(dets, id) ==
    {<<dets[k].row, dets[k].col>> :
        k \in {j \in 1..Len(dets) :
                  /\ dets[j].marker_id = id
                  /\ \A m \in 1..Len(dets) :
                        dets[m].marker_id = id => dets[m].score <= dets[j].score}}

\* C2 as stated: an id detected in two or more cells ends in the cell of its
\* highest-scoring detection and in no other cell.
C2_Original ==
    tpc = "done" =>
        \A id \in 1..MaxId :
            Cardinality(DetCellsOf(best_detections, id)) >= 2 =>
                /\ Cardinality(CellsHolding(id)) = 1
                /\ CellsHolding(id) \subseteq TopCellsOf(best_detections, id)

\* C2 (amended): an id that is left in two or more cells after the same-cell
\* step ends in the cell of the highest-scoring of those surviving detections
\* and in no other cell.
C2_Amended ==
    tpc = "done" =>
        \A id \in 1..MaxId :
            Cardinality(DetCellsOf(best_by_cell, id)) >= 2 =>
                /\ Cardinality(CellsHolding(id)) = 1
                /\ CellsHolding(id) \subseteq TopCellsOf(best_by_cell, id)

C2_Witness ==
    /\ tpc = "done"
    /\ \E id \in 1..MaxId :
          /\ Cardinality(DetCellsOf(best_by_cell, id)) >= 2
          /\ TopCellsOf(best_by_cell, id) # DetCellsOf(best_by_cell, id)
          /\ \E k \in 1..Len(best_detections) :
                /\ best_detections[k].marker_id # id
                /\ <<best_detections[k].row, best_detections[k].col>>
                      \in DetCellsOf(best_detections, id)

(***************************************************************************)
(* Frame sampler: extract_stable_frames and extract_stable_frames_debug    *)
(* (otbreview/pipeline/extract.py).                                        *)
(*                                                                         *)
(* A video is a list of pictures; the motion energy between two frames is  *)
(* below motion_threshold exactly when they show the same picture.         *)
(* Durations are given in tenths of a second.                              *)
(***************************************************************************)
MaxFrames == 9

Tenths == 10

Pictures == {0, 1}

\* (original_fps, target_fps) pairs handed to extract_stable_frames_debug
FpsPairs == {<<2, 2>>, <<5, 2>>}
StableDurations == {10, 15}
MinIntervals == {8, 20}

\* fps and stable_duration handed to extract_stable_frames
PlainFps == {2, 5}
PlainDurations == {5, 10, 15}

Videos == UNION {{v \in [1..n -> Pictures] : n > 0 => v[1] = 0} : n \in 0..MaxFrames}

Max(a, b) == IF a >= b THEN a ELSE b

\* extract.py:135-137 / 41-43: a reader that reports no fps counts as 30 fps
OriginalFps == IF sp.original_fps <= 0 THEN 30 ELSE sp.original_fps

\* extract.py:145  skip_frames = max(1, int(original_fps / target_fps))
skip_frames == Max(1, OriginalFps \div sp.target_fps)

\* extract.py:148 (debug: int(target_fps * stable_duration)) and
\* extract.py:45  (plain: int(fps * stable_duration))
stable_frame_count ==
    IF sp.sampler = "debug"
    THEN (sp.target_fps * sp.stable_duration) \div Tenths
    ELSE (OriginalFps * sp.stable_duration) \div Tenths

\* extract.py:149  min_interval_frames = int(target_fps * min_interval)
min_interval_frames == (sp.target_fps * sp.min_interval) \div Tenths

\* motion_energy < motion_threshold between the frames at two source positions
IsStable(a, b) == video[a + 1] = video[b + 1]

\* extract.py:204  mid_idx = stable_start_idx + (stable_counter // 2) * skip_frames
MidIdx(start, counter) == start + (counter \div 2) * skip_frames

\* extract.py:202  frame_idx - last_saved_idx >= min_interval_frames
IntervalOk(idx, last) == idx - last >= min_interval_frames

StartKept(start) == start

\* extract.py:220  stable_start_idx = None
StartAfterCapture(start) == NoFrame

SamplerInit ==
    /\ TagIdle
    /\ DecodeIdle
    /\ PipelineIdle
    /\ MapIdle
    /\ ListenerIdle
    /\ ReviewIdle
    /\ PgnIdle
    /\ video \in Videos
    /\ \/ /\ \E f \in FpsPairs, d \in StableDurations, m \in MinIntervals :
               sp = [sampler |-> "debug", original_fps |-> f[1], target_fps |-> f[2],
                     stable_duration |-> d, min_interval |-> m]
          /\ last_saved_idx = 0 - ((sp.target_fps * sp.min_interval) \div Tenths)
       \/ /\ \E f \in PlainFps, d \in PlainDurations :
               sp = [sampler |-> "plain", original_fps |-> f, target_fps |-> f,
                     stable_duration |-> d, min_interval |-> 0]
          /\ last_saved_idx = 0
    /\ cap_pos = 0
    /\ spc = "loop"
    /\ frame_idx = 0
    /\ prev_frame = NoFrame
    /\ stable_counter = 0
    /\ stable_start_idx = NoFrame
    /\ saved_count = 0
    /\ stable_frames = <<>>
    /\ motion_data = <<>>
    /\ run = <<>>

\* one pass of the `while True` loop of extract_stable_frames (extract.py:55-81)
PlainIter ==
    /\ spc = "loop"
    /\ sp.sampler = "plain"
    /\ cap_pos < Len(video)
    /\ LET pos == cap_pos
           stable == prev_frame # NoFrame /\ IsStable(pos, prev_frame)
           counted == stable_counter + 1
           capture == stable /\ counted >= stable_frame_count
       IN /\ stable_counter' = IF stable /\ ~capture THEN counted ELSE 0
          /\ run' = IF stable /\ ~capture THEN Append(run, pos) ELSE <<>>
          /\ stable_frames' =
                IF capture
                THEN Append(stable_frames,
                            [index |-> saved_count, pos |-> pos,
                             run |-> Append(run, pos), fallback |-> FALSE])
                ELSE stable_frames
          /\ saved_count' = IF capture THEN saved_count + 1 ELSE saved_count
          /\ prev_frame' = pos
    /\ cap_pos' = cap_pos + 1
    /\ frame_idx' = frame_idx + 1
    /\ UNCHANGED <<sp, video, spc, stable_start_idx, last_saved_idx, motion_data>>
    /\ UNCHANGED otherThanSampler

\* one pass of the `while True` loop of extract_stable_frames_debug (extract.py:164-231)
DebugIter ==
    /\ spc = "loop"
    /\ sp.sampler = "debug"
    /\ cap_pos < Len(video)
    /\ LET pos == cap_pos IN
       IF frame_idx % skip_frames # 0
       THEN /\ frame_idx' = frame_idx + 1
            /\ cap_pos' = pos + 1
            /\ UNCHANGED <<prev_frame, stable_counter, stable_start_idx, saved_count,
                           last_saved_idx, stable_frames, motion_data, run>>
       ELSE IF prev_frame = NoFrame
       THEN /\ motion_data' = Append(motion_data, [time |-> frame_idx, is_stable |-> FALSE])
            /\ prev_frame' = pos
            /\ frame_idx' = frame_idx + 1
            /\ cap_pos' = pos + 1
            /\ UNCHANGED <<stable_counter, stable_start_idx, saved_count,
                           last_saved_idx, stable_frames, run>>
       ELSE LET is_stable == IsStable(pos, prev_frame)
                start == IF ~is_stable THEN NoFrame
                         ELSE IF stable_start_idx = NoFrame THEN frame_idx
                         ELSE stable_start_idx
                counter == IF is_stable THEN stable_counter + 1 ELSE 0
                theRun == IF is_stable THEN Append(run, pos) ELSE <<>>
                reached == counter >= stable_frame_count /\ start # NoFrame
                capture == reached /\ IntervalOk(frame_idx, last_saved_idx)
                mid_idx == MidIdx(start, counter)
                ret_mid == mid_idx < Len(video)
            IN /\ motion_data' = Append(motion_data,
                                        [time |-> frame_idx, is_stable |-> is_stable])
               /\ IF capture
                  THEN /\ cap_pos' = IF ret_mid THEN mid_idx + 1 ELSE mid_idx
                       /\ stable_frames' =
                             IF ret_mid
                             THEN Append(stable_frames,
                                         [index |-> saved_count + 1, pos |-> mid_idx,
                                          run |-> theRun, fallback |-> FALSE])
                             ELSE stable_frames
                       /\ saved_count' = IF ret_mid THEN saved_count + 1 ELSE saved_count
                       /\ last_saved_idx' = IF ret_mid THEN frame_idx ELSE last_saved_idx
                       /\ stable_start_idx' = StartAfterCapture(start)
                       /\ stable_counter' = 0
                       /\ run' = IF StartAfterCapture(start) = NoFrame THEN <<>> ELSE theRun
                  ELSE /\ cap_pos' = pos + 1
                       /\ stable_start_idx' = start
                       /\ stable_counter' = counter
                       /\ run' = theRun
                       /\ UNCHANGED <<stable_frames, saved_count, last_saved_idx>>
               /\ prev_frame' = pos
               /\ frame_idx' = frame_idx + 1
    /\ UNCHANGED <<sp, video, spc>>
    /\ UNCHANGED otherThanSampler

ReadFailsPastEnd(pos) == pos > Len(video)

\* extract.py:56-58 and 165-167  cap.read() returns no frame at the end of the video
ReadFails(pos) == pos >= Len(video)

\* cap.read() fails: leave the loop; with no stable frame the first frame of
\* the video is saved instead (extract.py:83-95 and 233-253)
SamplerFinish ==
    /\ spc = "loop"
    /\ ReadFails(cap_pos)
    /\ spc' = "done"
    /\ stable_frames' =
          IF Len(stable_frames) = 0 /\ Len(video) > 0
          THEN <<[index |-> 0, pos |-> 0, run |-> <<>>, fallback |-> TRUE]>>
          ELSE stable_frames
    /\ UNCHANGED <<sp, video, cap_pos, frame_idx, prev_frame, stable_counter, stable_start_idx,
                   saved_count, last_saved_idx, motion_data, run>>
    /\ UNCHANGED otherThanSampler

SamplerNext == PlainIter \/ DebugIter \/ SamplerFinish

SpecSampler == SamplerInit /\ [][SamplerNext]_vars

\* extract_stable_frames_debug alone; the loop runs as long as the call is not
\* interrupted
DebugSamplerInit == SamplerInit /\ sp.sampler = "debug"

DebugSamplerNext == DebugIter \/ SamplerFinish

SpecDebugSampler ==
    DebugSamplerInit /\ [][DebugSamplerNext]_vars /\ WF_vars(DebugSamplerNext)

(***************************************************************************)
(* Claims about the frame sampler                                          *)
(***************************************************************************)
Captures == {k \in 1..Len(stable_frames) : ~stable_frames[k].fallback}

\* C8: every captured frame is the middle frame of a run of consecutive
\* sampled frames, all below the motion threshold, that is at least the
\* required run length long (for an even run either of the two middle frames
\* counts).
C8_MiddleOfStableRun ==
    \A k \in Captures :
        LET e == stable_frames[k]
            n == Len(e.run)
        IN /\ n >= stable_frame_count
           /\ n >= 1
           /\ \/ e.pos = e.run[(n \div 2) + 1]
              \/ e.pos = e.run[((n - 1) \div 2) + 1]

\* C9: two successively emitted frames are at least stable_duration seconds
\* apart in source-video time.
C9_GapAtLeastStableDuration ==
    \A k \in Captures :
        (k + 1) \in Captures =>
            (stable_frames[k + 1].pos - stable_frames[k].pos) * Tenths
                >= sp.stable_duration * OriginalFps

\* C10: output indices are dense and increasing and the source positions of
\* the emitted frames are strictly increasing in output order.
C10_PositionsIncrease ==
    \A k \in 1..Len(stable_frames) :
        (k + 1) \in 1..Len(stable_frames) =>
            /\ stable_frames[k + 1].index = stable_frames[k].index + 1
            /\ stable_frames[k + 1].pos > stable_frames[k].pos

C10_Witness ==
    /\ spc = "done"
    /\ sp.sampler = "debug"
    /\ Len(stable_frames) >= 3
    /\ cap_pos < frame_idx

\* every inter-frame motion value of the video is below the threshold
ZeroMotion == \A i \in 1..Len(video) : video[i] = video[1]

\* C11: for a video whose every inter-frame motion value is below the
\* threshold the sampler returns exactly one stable frame, whatever the
\* length of the video.
C11_StillVideoOneFrame ==
    (spc = "done" /\ Len(video) >= 1 /\ ZeroMotion) => Len(stable_frames) = 1

(***************************************************************************)
(* The chess board the decoders keep (chess.Board of python-chess, as far  *)
(* as the decoders use it): piece placement, side to move, castling rights *)
(* (the set of rook squares that may still castle) and en-passant square.  *)
(* Squares are numbered as chess.square(file, rank) = rank * 8 + file.     *)
(***************************************************************************)
Squares == 0..63
NoSq == -1

FileOf(s) == s % 8
RankOf(s) == s \div 8
Sq(f, r) == r * 8 + f

Abs(x) == IF x < 0 THEN 0 - x ELSE x
Sign(x) == IF x < 0 THEN -1 ELSE IF x > 0 THEN 1 ELSE 0

WhiteSyms == {"P", "N", "B", "R", "Q", "K"}
BlackSyms == {"p", "n", "b", "r", "q", "k"}

ColorOf(sym) == IF sym \in WhiteSyms THEN "w" ELSE IF sym \in BlackSyms THEN "b" ELSE "-"
Other(c) == IF c = "w" THEN "b" ELSE "w"

TypeOf(sym) ==
    CASE sym \in {"P", "p"} -> "p"
      [] sym \in {"N", "n"} -> "n"
      [] sym \in {"B", "b"} -> "b"
      [] sym \in {"R", "r"} -> "r"
      [] sym \in {"Q", "q"} -> "q"
      [] sym \in {"K", "k"} -> "k"
      [] OTHER -> "-"

SymOf(c, ty) ==
    IF c = "w"
    THEN CASE ty = "p" -> "P" [] ty = "n" -> "N" [] ty = "b" -> "B"
           [] ty = "r" -> "R" [] ty = "q" -> "Q" [] OTHER -> "K"
    ELSE ty

NoPieces == [s \in Squares |-> "."]

\* chess.Board.empty(): no pieces, no castling rights
BoardEmpty == [pieces |-> NoPieces, turn |-> "w", castling |-> {}, ep |-> NoSq]

StartPieces ==
    [s \in Squares |->
        CASE RankOf(s) = 1 -> "P"
          [] RankOf(s) = 6 -> "p"
          [] RankOf(s) = 0 -> <<"R", "N", "B", "Q", "K", "B", "N", "R">>[FileOf(s) + 1]
          [] RankOf(s) = 7 -> <<"r", "n", "b", "q", "k", "b", "n", "r">>[FileOf(s) + 1]
          [] OTHER -> "."]

\* chess.Board(): the starting position with all castling rights
BoardStart == [pieces |-> StartPieces, turn |-> "w", castling |-> {0, 7, 56, 63}, ep |-> NoSq]

NoPromo == ""
NoMove == [from |-> NoSq, to |-> NoSq, promo |-> NoPromo]
Mv(f, t, pr) == [from |-> f, to |-> t, promo |-> pr]

PathClear(P, s, t) ==
    LET df == FileOf(t) - FileOf(s)
        dr == RankOf(t) - RankOf(s)
        n == IF Abs(df) > Abs(dr) THEN Abs(df) ELSE Abs(dr)
        step == Sign(dr) * 8 + Sign(df)
    IN \A k \in 1..(n - 1) : P[s + k * step] = "."

\* the piece standing on s attacks square t
Attacks(P, s, t) ==
    LET sym == P[s]
        ty == TypeOf(sym)
        df == FileOf(t) - FileOf(s)
        dr == RankOf(t) - RankOf(s)
    IN /\ s # t
       /\ CASE ty = "p" -> Abs(df) = 1 /\ dr = (IF sym = "P" THEN 1 ELSE -1)
            [] ty = "n" -> {Abs(df), Abs(dr)} = {1, 2}
            [] ty = "k" -> Abs(df) <= 1 /\ Abs(dr) <= 1
            [] ty = "b" -> Abs(df) = Abs(dr) /\ PathClear(P, s, t)
            [] ty = "r" -> (df = 0 \/ dr = 0) /\ PathClear(P, s, t)
            [] ty = "q" -> (df = 0 \/ dr = 0 \/ Abs(df) = Abs(dr)) /\ PathClear(P, s, t)
            [] OTHER -> FALSE

IsAttackedBy(P, t, c) == \E s \in Squares : ColorOf(P[s]) = c /\ Attacks(P, s, t)

\* Board.king(color): None (NoSq) when that side has no king
KingSq(P, c) ==
    LET ks == {s \in Squares : P[s] = SymOf(c, "k")}
    IN IF ks = {} THEN NoSq ELSE CHOOSE s \in ks : \A o \in ks : o <= s

IsCastling(b, m) ==
    /\ TypeOf(b.pieces[m.from]) = "k"
    /\ Abs(FileOf(m.to) - FileOf(m.from)) > 1

IsEnPassant(b, m) ==
    /\ TypeOf(b.pieces[m.from]) = "p"
    /\ b.ep = m.to
    /\ Abs(m.to - m.from) \in {7, 9}
    /\ b.pieces[m.to] = "."

IsCapture(b, m) ==
    \/ ColorOf(b.pieces[m.to]) = Other(b.turn)
    \/ IsEnPassant(b, m)

\* piece placement after the move
Placed(b, m) ==
    LET P == b.pieces
        sym == P[m.from]
        c == ColorOf(sym)
        moved == IF m.promo # NoPromo THEN SymOf(c, m.promo) ELSE sym
        base == [P EXCEPT ![m.from] = ".", ![m.to] = moved]
    IN IF IsEnPassant(b, m)
       THEN [base EXCEPT ![m.to + (IF c = "w" THEN -8 ELSE 8)] = "."]
       ELSE IF IsCastling(b, m)
       THEN LET r0 == RankOf(m.from)
                kingside == FileOf(m.to) > FileOf(m.from)
                rookFrom == Sq(IF kingside THEN 7 ELSE 0, r0)
                rookTo == Sq(IF kingside THEN 5 ELSE 3, r0)
            IN [[base EXCEPT ![rookFrom] = "."] EXCEPT ![rookTo] = P[rookFrom]]
       ELSE base

\* Board.generate_castling_moves restricted to the move m
CastlingOk(b, m) ==
    LET P == b.pieces
        c == b.turn
        r0 == IF c = "w" THEN 0 ELSE 7
        kingFrom == Sq(4, r0)
        kingside == FileOf(m.to) = 6
        rookSq == Sq(IF kingside THEN 7 ELSE 0, r0)
        lo == IF kingside THEN 5 ELSE 1
        hi == IF kingside THEN 6 ELSE 3
        kingPath == IF kingside THEN {4, 5, 6} ELSE {2, 3, 4}
    IN /\ m.from = kingFrom
       /\ P[kingFrom] = SymOf(c, "k")
       /\ m.to \in {Sq(6, r0), Sq(2, r0)}
       /\ m.promo = NoPromo
       /\ rookSq \in b.castling
       /\ P[rookSq] = SymOf(c, "r")
       /\ \A f \in lo..hi : P[Sq(f, r0)] = "."
       /\ \A f \in kingPath : ~IsAttackedBy(P, Sq(f, r0), Other(c))

PawnMoveOk(b, m) ==
    LET P == b.pieces
        c == b.turn
        fwd == IF c = "w" THEN 1 ELSE -1
        df == FileOf(m.to) - FileOf(m.from)
        dr == RankOf(m.to) - RankOf(m.from)
    IN /\ (RankOf(m.to) = (IF c = "w" THEN 7 ELSE 0)) <=> (m.promo # NoPromo)
       /\ \/ df = 0 /\ dr = fwd /\ P[m.to] = "."
          \/ /\ df = 0 /\ dr = 2 * fwd
             /\ RankOf(m.from) = (IF c = "w" THEN 1 ELSE 6)
             /\ P[m.from + 8 * fwd] = "."
             /\ P[m.to] = "."
          \/ Abs(df) = 1 /\ dr = fwd /\ ColorOf(P[m.to]) = Other(c)
          \/ /\ Abs(df) = 1 /\ dr = fwd
             /\ m.to = b.ep
             /\ P[m.to] = "."
             /\ RankOf(m.from) = (IF c = "w" THEN 4 ELSE 3)

\* Board.is_pseudo_legal
PseudoLegal(b, m) ==
    LET P == b.pieces
        sym == P[m.from]
        ty == TypeOf(sym)
    IN /\ m.from \in Squares /\ m.to \in Squares
       /\ sym # "."
       /\ ColorOf(sym) = b.turn
       /\ m.promo # NoPromo =>
             ty = "p" /\ RankOf(m.to) = (IF b.turn = "w" THEN 7 ELSE 0)
       /\ \/ ty = "k" /\ CastlingOk(b, m)
          \/ /\ ColorOf(P[m.to]) # b.turn
             /\ IF ty = "p" THEN PawnMoveOk(b, m) ELSE Attacks(P, m.from, m.to)

\* Board.is_into_check: the mover's king is attacked after the move
IsIntoCheck(b, m) ==
    LET P2 == Placed(b, m)
        k == KingSq(P2, b.turn)
    IN k # NoSq /\ IsAttackedBy(P2, k, Other(b.turn))

\* `move in board.legal_moves`
IsLegal(b, m) == PseudoLegal(b, m) /\ ~IsIntoCheck(b, m)

\* Board.push
Push(b, m) ==
    LET sym == b.pieces[m.from]
        ty == TypeOf(sym)
        c == b.turn
        corners == IF c = "w" THEN {0, 7} ELSE {56, 63}
    IN [pieces |-> Placed(b, m),
        turn |-> Other(c),
        castling |-> (b.castling \ {m.from, m.to}) \ (IF ty = "k" THEN corners ELSE {}),
        ep |-> IF ty = "p" /\ Abs(m.to - m.from) = 16
                   /\ RankOf(m.from) = (IF c = "w" THEN 1 ELSE 6)
               THEN m.from + (IF c = "w" THEN 8 ELSE -8)
               ELSE NoSq]

Promos == <<"q", "r", "b", "n">>

IsCheck(b) ==
    LET k == KingSq(b.pieces, b.turn)
    IN k # NoSq /\ IsAttackedBy(b.pieces, k, Other(b.turn))

HasLegalMove(b) ==
    \E f \in {s \in Squares : ColorOf(b.pieces[s]) = b.turn} :
        \E t \in Squares :
            \E pr \in {NoPromo, "q", "r", "b", "n"} : IsLegal(b, Mv(f, t, pr))

\* An entry of the move list: a SAN (kept by its parts) or the placeholder.
Unknown ==
    [kind |-> "??", castle |-> "", piece |-> "", dfile |-> -1, drank |-> -1,
     capture |-> FALSE, to |-> NoSq, promo |-> NoPromo, suffix |-> ""]

Raised ==
    [kind |-> "error", castle |-> "", piece |-> "", dfile |-> -1, drank |-> -1,
     capture |-> FALSE, to |-> NoSq, promo |-> NoPromo, suffix |-> ""]

\* Board.san: castling as O-O / O-O-O; otherwise piece letter, the file and/or
\* rank of the origin where another piece of the kind could also legally move
\* to the target, capture mark, target, promotion, and + or # when the move
\* gives check or mate.  san() asserts that the origin square holds a piece.
San(b, m) ==
    IF b.pieces[m.from] = "." THEN Raised
    ELSE
    LET P == b.pieces
        sym == P[m.from]
        ty == TypeOf(sym)
        after == Push(b, m)
        suffix == IF IsCheck(after)
                  THEN (IF HasLegalMove(after) THEN "+" ELSE "#")
                  ELSE ""
        others == {s \in Squares \ {m.from} :
                      P[s] = sym /\ IsLegal(b, Mv(s, m.to, m.promo))}
        sameRank == \E s \in others : RankOf(s) = RankOf(m.from)
        sameFile == \E s \in others : FileOf(s) = FileOf(m.from)
        row == others # {} /\ sameFile
        column == others # {} /\ (sameRank \/ ~sameFile)
    IN IF IsCastling(b, m)
       THEN [Unknown EXCEPT !.kind = "san", !.suffix = suffix,
                !.castle = IF FileOf(m.to) < FileOf(m.from) THEN "O-O-O" ELSE "O-O"]
       ELSE IF ty = "p"
       THEN [kind |-> "san", castle |-> "", piece |-> "",
             dfile |-> IF IsCapture(b, m) THEN FileOf(m.from) ELSE -1, drank |-> -1,
             capture |-> IsCapture(b, m), to |-> m.to, promo |-> m.promo, suffix |-> suffix]
       ELSE [kind |-> "san", castle |-> "", piece |-> ty,
             dfile |-> IF column THEN FileOf(m.from) ELSE -1,
             drank |-> IF row THEN RankOf(m.from) ELSE -1,
             capture |-> IsCapture(b, m), to |-> m.to, promo |-> NoPromo, suffix |-> suffix]

\* The legal moves of b that a SAN denotes (Board.parse_san accepts the SAN
\* when there is exactly one).
SanMoves(b, san) ==
    IF san.kind # "san" THEN {}
    ELSE IF san.castle # ""
    THEN LET r0 == IF b.turn = "w" THEN 0 ELSE 7
             m == Mv(Sq(4, r0), Sq(IF san.castle = "O-O" THEN 6 ELSE 2, r0), NoPromo)
         IN {x \in {m} : IsLegal(b, x)}
    ELSE {m \in {Mv(f, san.to, san.promo) :
                    f \in {s \in Squares :
                              /\ b.pieces[s] = SymOf(b.turn, IF san.piece = "" THEN "p" ELSE san.piece)
                              /\ san.dfile # -1 => FileOf(s) = san.dfile
                              /\ san.drank # -1 => RankOf(s) = san.drank}} :
             IsLegal(b, m)}

\* list(board.legal_moves) as a set
LegalMoves(b) ==
    {m \in {Mv(f, t, pr) : f \in {s \in Squares : ColorOf(b.pieces[s]) = b.turn},
                           t \in Squares, pr \in {NoPromo, "q", "r", "b", "n"}} :
        IsLegal(b, m)}

(***************************************************************************)
(* Identity-tracking decoder: infer_moves_from_id_grids                    *)
(* (otbreview/pipeline/tag_decode.py).                                     *)
(***************************************************************************)
MaxGrids == 8

\* ids 1-16 white (pawns a2..h2, then a1..h1), 17-32 black (pawns a7..h7, then a8..h8)
StandardMap ==
    [pid \in 1..32 |->
        IF pid <= 8 THEN [symbol |-> "P", square |-> Sq(pid - 1, 1)]
        ELSE IF pid <= 16 THEN [symbol |-> StartPieces[pid - 9], square |-> pid - 9]
        ELSE IF pid <= 24 THEN [symbol |-> "p", square |-> Sq(pid - 17, 6)]
        ELSE [symbol |-> StartPieces[pid + 31], square |-> pid + 31]]

\* a reduced map: Ke1, Pb7, Pe5 against kh8, pd7, ra8
EndgameMap ==
    (1 :> [symbol |-> "K", square |-> 4]) @@ (2 :> [symbol |-> "P", square |-> 49]) @@
    (3 :> [symbol |-> "P", square |-> 36]) @@ (17 :> [symbol |-> "k", square |-> 63]) @@
    (18 :> [symbol |-> "p", square |-> 51]) @@ (19 :> [symbol |-> "r", square |-> 56])

MapOf(sc) == IF sc = "endgame" THEN EndgameMap ELSE StandardMap

\* What the camera may show next: each gesture is a set of (from, to) slides
\* of whatever id stands on `from`; to = NoSq takes the id off the board.
\*   castle:  Ng1-f3, e2-e4, Bf1-c4, Ke1-g1 with Rh1-f1, a7-a6, a6-a5, a5-a4
\*   capture: e2-e4, d7-d5, e4xd5, nothing moved
\*   endgame: b7-b8, Ke1-e2, d7-d5, e5xd6 with d5 taken off, Kh8-g8
Gestures(sc) ==
    IF sc = "castle"
    THEN {{<<6, 21>>}, {<<12, 28>>}, {<<5, 26>>}, {<<4, 6>>, <<7, 5>>},
          {<<48, 40>>}, {<<40, 32>>}, {<<32, 24>>}}
    ELSE IF sc = "capture"
    THEN {{<<12, 28>>}, {<<51, 35>>}, {<<28, 35>>}, {}}
    ELSE {{<<49, 57>>}, {<<4, 12>>}, {<<51, 35>>},
          {<<36, 43>>, <<35, NoSq>>}, {<<63, 62>>}}

IdAt(g, sq) == g[7 - RankOf(sq)][FileOf(sq)]

\* every slide starts on an occupied cell; a double move goes to free cells
Applicable(g, ges) ==
    \A sl \in ges :
        /\ IdAt(g, sl[1]) # 0
        /\ (Cardinality(ges) > 1 /\ sl[2] # NoSq) => IdAt(g, sl[2]) = 0

ApplyGesture(g, ges) ==
    [r \in Rows |-> [c \in Cols |->
        LET sq == Sq(c, 7 - r)
        IN IF \E sl \in ges : sl[2] = sq
           THEN IdAt(g, (CHOOSE sl \in ges : sl[2] = sq)[1])
           ELSE IF \E sl \in ges : sl[1] = sq THEN 0 ELSE g[r][c]]]

\* _init_board_from_map
InitBoardFromMap(map) ==
    [BoardEmpty EXCEPT !.pieces =
        [s \in Squares |->
            LET ids == {pid \in DOMAIN map : map[pid].square = s}
            IN IF ids = {} THEN "."
               ELSE map[CHOOSE pid \in ids : \A o \in ids : o <= pid].symbol]]

\* the grid a camera sees when every piece stands on its initial square
GridOfMap(map) ==
    [r \in Rows |-> [c \in Cols |->
        LET ids == {pid \in DOMAIN map : map[pid].square = Sq(c, 7 - r)}
        IN IF ids = {} THEN 0 ELSE CHOOSE pid \in ids : \A o \in ids : o <= pid]]

\* the ids of one row with the square of the last column that shows each
RowPositions(g, r) ==
    LET ids == {g[r][c] : c \in Cols} \ {0}
    IN [pid \in ids |->
          Sq(CHOOSE c \in Cols : g[r][c] = pid /\ \A o \in Cols : g[r][o] = pid => o <= c,
             7 - r)]

\* _grid_to_positions: the cells are scanned row by row, column by column;
\* a later cell with the same id overwrites an earlier one
GridToPositions(g) ==
    RowPositions(g, 7) @@ RowPositions(g, 6) @@ RowPositions(g, 5) @@ RowPositions(g, 4) @@
    RowPositions(g, 3) @@ RowPositions(g, 2) @@ RowPositions(g, 1) @@ RowPositions(g, 0)

\* dict.get: NoSq stands for None
Get(d, k) == IF k \in DOMAIN d THEN d[k] ELSE NoSq

\* tag_decode.py:123
MovedIds(prev, curr) ==
    {pid \in (DOMAIN prev) \cup (DOMAIN curr) : Get(prev, pid) # Get(curr, pid)}

\* _detect_castling
DetectCastling(moved, prev, curr, map) ==
    IF Cardinality(moved) # 2 THEN NoMove
    ELSE LET kings == {pid \in moved : pid \in DOMAIN map /\ TypeOf(map[pid].symbol) = "k"}
             rooks == {pid \in moved : pid \in DOMAIN map /\ TypeOf(map[pid].symbol) = "r"}
         IN IF kings = {} \/ rooks = {} THEN NoMove
            ELSE LET k == CHOOSE pid \in kings : TRUE
                     r == CHOOSE pid \in rooks : TRUE
                     sig == <<Get(prev, k), Get(curr, k), Get(prev, r), Get(curr, r)>>
                 IN IF \E i \in 1..4 : sig[i] = NoSq THEN NoMove
                    ELSE IF sig = <<4, 6, 7, 5>> THEN Mv(4, 6, NoPromo)
                    ELSE IF sig = <<4, 2, 0, 3>> THEN Mv(4, 2, NoPromo)
                    ELSE IF sig = <<60, 62, 63, 61>> THEN Mv(60, 62, NoPromo)
                    ELSE IF sig = <<60, 58, 56, 59>> THEN Mv(60, 58, NoPromo)
                    ELSE NoMove

\* _match_legal_move: the first legal move with these squares; promotions are
\* generated queen first
MatchLegalMove(b, f, t, promotion) ==
    LET ok(pr) == IsLegal(b, Mv(f, t, pr)) /\ (promotion = NoPromo \/ pr = promotion)
    IN IF ok(NoPromo) THEN Mv(f, t, NoPromo)
       ELSE IF \E i \in 1..4 : ok(Promos[i])
       THEN Mv(f, t, Promos[CHOOSE i \in 1..4 : ok(Promos[i]) /\ \A j \in 1..(i - 1) : ~ok(Promos[j])])
       ELSE NoMove

MoveAcceptedOwnPiece(b, m) == ColorOf(b.pieces[m.from]) = b.turn /\ ColorOf(b.pieces[m.to]) # b.turn

\* tag_decode.py:151  `move in board.legal_moves`
MoveAccepted(b, m) == IsLegal(b, m)

\* tag_decode.py:135  `castle in board.legal_moves`
CastleAccepted(b, m) == IsLegal(b, m)

\* tag_decode.py:138-154
SingleMove(b, moved, prev, curr, map) ==
    LET pid == CHOOSE x \in moved : TRUE
        from_sq == Get(prev, pid)
        to_sq == Get(curr, pid)
    IN IF from_sq # NoSq /\ to_sq # NoSq /\ pid \in DOMAIN map
       THEN LET promotion == IF TypeOf(map[pid].symbol) = "p" /\ RankOf(to_sq) \in {0, 7}
                             THEN "q" ELSE NoPromo
                move == Mv(from_sq, to_sq, promotion)
            IN IF MoveAccepted(b, move) THEN move
               ELSE MatchLegalMove(b, from_sq, to_sq, promotion)
       ELSE NoMove

\* tag_decode.py:132-154
ChosenMove(b, prev, curr, map) ==
    LET moved == MovedIds(prev, curr)
        castle == DetectCastling(moved, prev, curr, map)
    IN IF castle # NoMove /\ CastleAccepted(b, castle) THEN castle
       ELSE IF Cardinality(moved) = 1 THEN SingleMove(b, moved, prev, curr, map)
       ELSE NoMove

PrevKept(prev, curr) == prev

\* tag_decode.py:161  prev_positions = curr_positions
PrevAfterUncertain(prev, curr) == curr

\* castling rights of a game that starts from the placement P
GameRights(P) ==
    {s \in {0, 7} : P[s] = "R" /\ P[4] = "K"} \cup {s \in {56, 63} : P[s] = "r" /\ P[60] = "k"}

\* the gestures shown so far are not the moves of a legal game
NoGame == [BoardEmpty EXCEPT !.turn = "-"]

\* the placement on the filmed board after a gesture; a pawn that reaches the
\* last rank is exchanged for a queen
GesturePieces(P, ges) ==
    [s \in Squares |->
        IF \E sl \in ges : sl[2] = s
        THEN LET p == P[(CHOOSE sl \in ges : sl[2] = s)[1]]
             IN IF p = "P" /\ RankOf(s) = 7 THEN "Q"
                ELSE IF p = "p" /\ RankOf(s) = 0 THEN "q" ELSE p
        ELSE IF \E sl \in ges : sl[1] = s THEN "." ELSE P[s]]

\* the legal moves of the game position a that a gesture carries out
GameMoves(a, ges) ==
    {m \in LegalMoves(a) :
        /\ \E sl \in ges : sl[1] = m.from
        /\ Push(a, m).pieces = GesturePieces(a.pieces, ges)}

\* the game position after a gesture
GameAfter(a, ges) ==
    IF a = NoGame \/ ges = {} THEN a
    ELSE IF GameMoves(a, ges) = {} THEN NoGame
    ELSE Push(a, CHOOSE m \in GameMoves(a, ges) : TRUE)

TagDecodeInit ==
    /\ decoder = "tag"
    /\ scenario \in {"castle", "capture", "endgame"}
    /\ piece_map = MapOf(scenario)
    /\ board = InitBoardFromMap(piece_map)
    /\ last_obs = GridOfMap(piece_map)
    /\ prev_positions = GridToPositions(last_obs)
    /\ moves_san = <<>>
    /\ move_debug = <<>>
    /\ uncertain = <<>>
    /\ n_grids \in {0, 1}
    /\ dpc = "loop"
    /\ entry_pair = <<>>
    /\ rights = GameRights(board.pieces)
    /\ actual = [board EXCEPT !.castling = rights]

\* one pass of the loop of infer_moves_from_id_grids (tag_decode.py:121-169)
TagStep ==
    /\ decoder = "tag"
    /\ dpc = "loop"
    /\ n_grids >= 1
    /\ n_grids < MaxGrids
    /\ \E ges \in Gestures(scenario) :
          /\ Applicable(last_obs, ges)
          /\ LET grid == ApplyGesture(last_obs, ges)
                 idx == n_grids
                 curr_positions == GridToPositions(grid)
                 moved_ids == MovedIds(prev_positions, curr_positions)
                 chosen_move == ChosenMove(board, prev_positions, curr_positions, piece_map)
             IN /\ last_obs' = grid
                /\ actual' = GameAfter(actual, ges)
                /\ n_grids' = n_grids + 1
                /\ entry_pair' = Append(entry_pair, idx)
                /\ IF chosen_move = NoMove
                   THEN /\ moves_san' = Append(moves_san, Unknown)
                        /\ uncertain' = Append(uncertain, [step |-> idx, moved_ids |-> moved_ids])
                        /\ prev_positions' = PrevAfterUncertain(prev_positions, curr_positions)
                        /\ UNCHANGED <<board, move_debug, rights>>
                   ELSE /\ LET san == San(board, chosen_move)
                           IN /\ moves_san' = Append(moves_san, san)
                              /\ move_debug' = Append(move_debug,
                                                      [step |-> idx, moved_ids |-> moved_ids,
                                                       san |-> san])
                        /\ board' = Push(board, chosen_move)
                        /\ prev_positions' = curr_positions
                        /\ rights' = Push([board EXCEPT !.castling = rights], chosen_move).castling
                        /\ UNCHANGED uncertain
    /\ UNCHANGED <<decoder, piece_map, scenario, dpc>>
    /\ UNCHANGED otherThanDecode

(***************************************************************************)
(* Legality-constrained decoder: decode_moves (otbreview/pipeline/         *)
(* decode.py).                                                             *)
(***************************************************************************)
\* 7k/5Q2/6K1/8/8/8/8/8 b - - : Black to move has no legal move
StalematePieces == [s \in Squares |-> IF s = 63 THEN "k" ELSE IF s = 53 THEN "Q"
                                      ELSE IF s = 46 THEN "K" ELSE "."]

InitialFen(sc) ==
    IF sc = "start" THEN BoardStart
    ELSE IF sc = "endgame" THEN InitBoardFromMap(EndgameMap)
    ELSE [pieces |-> StalematePieces, turn |-> "b", castling |-> {}, ep |-> NoSq]

\* _fen_to_occupancy: 0 empty, 1 white, 2 black; row 0 is rank 8
FenToOccupancy(b) ==
    [r \in Rows |-> [c \in Cols |->
        LET sym == b.pieces[Sq(c, 7 - r)]
        IN IF sym = "." THEN 0 ELSE IF ColorOf(sym) = "w" THEN 1 ELSE 2]]

\* _compute_occupancy_distance
OccupancyDistance(o1, o2) == Cardinality({rc \in Rows \X Cols : o1[rc[1]][rc[2]] # o2[rc[1]][rc[2]]})

\* moves the players may have made between two stable frames
ObservedMoves == {Mv(12, 28, NoPromo), Mv(12, 20, NoPromo), Mv(6, 21, NoPromo),
                  Mv(49, 56, "q"), Mv(4, 12, NoPromo)}

OccObservations(b) ==
    {FenToOccupancy(b)} \cup {FenToOccupancy(Push(b, m)) : m \in {x \in ObservedMoves : IsLegal(b, x)}}

SortsBeforeDescending(a, b) == a >= b

\* decode.py:143  candidates.sort(key=lambda x: x['score'])
SortsBefore(a, b) == a <= b

\* _find_best_move: the candidate the sort puts first; which of several with
\* the same score comes first is left open
BestMoves(b, obs) ==
    LET legal == LegalMoves(b)
        score(m) == OccupancyDistance(FenToOccupancy(Push(b, m)), obs)
    IN {m \in legal : \A o \in legal : SortsBefore(score(m), score(o))}

OccDecodeInit ==
    /\ decoder = "occupancy"
    /\ scenario \in {"start", "stalemate", "endgame"}
    /\ piece_map = <<>>
    /\ board = InitialFen(scenario)
    /\ last_obs = FenToOccupancy(board)
    /\ prev_positions = last_obs
    /\ moves_san = <<>>
    /\ move_debug = <<>>
    /\ uncertain = <<>>
    /\ n_grids = 1
    /\ dpc = "loop"
    /\ entry_pair = <<>>
    /\ rights = board.castling
    /\ actual = NoGame

\* one pass of the loop of decode_moves (decode.py:52-96)
OccStep ==
    /\ decoder = "occupancy"
    /\ dpc = "loop"
    /\ n_grids < MaxGrids
    /\ \E obs \in OccObservations(board) :
          /\ last_obs' = obs
          /\ n_grids' = n_grids + 1
          /\ IF LegalMoves(board) = {}
             THEN /\ moves_san' = Append(moves_san, Unknown)
                  /\ move_debug' = Append(move_debug, [uncertain |-> TRUE, score |-> -1])
                  /\ entry_pair' = Append(entry_pair, n_grids)
                  /\ UNCHANGED <<board, prev_positions, dpc, rights>>
             ELSE \E best_move \in BestMoves(board, obs) :
                  LET pushed == Push(board, best_move)
                      san == San(pushed, best_move)
                  IN /\ board' = pushed
                     /\ rights' = pushed.castling
                     /\ IF san = Raised
                        THEN /\ dpc' = "raised"
                             /\ UNCHANGED <<moves_san, move_debug, entry_pair, prev_positions>>
                        ELSE /\ moves_san' = Append(moves_san, san)
                             /\ move_debug' =
                                   Append(move_debug,
                                          [uncertain |-> Cardinality(BestMoves(board, obs)) > 1,
                                           score |-> OccupancyDistance(FenToOccupancy(pushed), obs)])
                             /\ entry_pair' = Append(entry_pair, n_grids)
                             /\ prev_positions' = obs
                             /\ UNCHANGED dpc
    /\ UNCHANGED <<decoder, piece_map, scenario, uncertain, actual>>
    /\ UNCHANGED otherThanDecode

\* the list of observations is exhausted: the decoder returns its lists
DecodeReturn ==
    /\ dpc = "loop"
    /\ decoder \in {"tag", "occupancy"}
    /\ dpc' = "returned"
    /\ UNCHANGED <<decoder, piece_map, scenario, board, last_obs, prev_positions, moves_san,
                   move_debug, uncertain, n_grids, entry_pair, rights, actual>>
    /\ UNCHANGED otherThanDecode

DecodeInit ==
    /\ TagIdle
    /\ SamplerIdle
    /\ PipelineIdle
    /\ MapIdle
    /\ ListenerIdle
    /\ ReviewIdle
    /\ PgnIdle
    /\ (TagDecodeInit \/ OccDecodeInit)

DecodeNext == TagStep \/ OccStep \/ DecodeReturn

SpecDecode == DecodeInit /\ [][DecodeNext]_vars

(***************************************************************************)
(* Properties of the two decoders.                                         *)
(***************************************************************************)
LastEntry(sans) == sans[Len(sans)]

\* a step of the identity-tracking decoder that appended one entry
TagStepTaken == decoder = "tag" /\ Len(moves_san') = Len(moves_san) + 1

\* a board no replay of legal moves can produce
IllegalBoard == [BoardEmpty EXCEPT !.turn = "illegal"]

\* plays the SANs of a list from b, skipping the placeholders; a SAN that does
\* not denote exactly one legal move ends in IllegalBoard
RECURSIVE Replay(_, _, _)
Replay(b, sans, k) ==
    IF k > Len(sans) \/ b = IllegalBoard THEN b
    ELSE IF sans[k] = Unknown THEN Replay(b, sans, k + 1)
    ELSE LET ms == SanMoves(b, sans[k])
         IN IF Cardinality(ms) = 1
            THEN Replay(Push(b, CHOOSE m \in ms : TRUE), sans, k + 1)
            ELSE IllegalBoard

\* C3: every SAN emitted by infer_moves_from_id_grids is a legal move of the
\* canonical board at its step: the emitted list without its ?? placeholders
\* replays, legal move by legal move, from the board built from the PieceMap
\* to the decoder's canonical board.
C3_EmittedSansLegal ==
    decoder = "tag" => Replay(InitBoardFromMap(piece_map), moves_san, 1) = board

\* C3 witness: a SAN, later a placeholder, later another SAN
C3_Witness ==
    /\ decoder = "tag"
    /\ \E i, j, k \in 1..Len(moves_san) :
          /\ i < j /\ j < k
          /\ moves_san[i] # Unknown /\ moves_san[j] = Unknown /\ moves_san[k] # Unknown

\* the grid pair of a step shows exactly the white king going e1-g1 and the
\* h1 rook going h1-f1
ShowsShortCastle(prev, curr) ==
    /\ MovedIds(prev, curr) = {13, 16}
    /\ Get(prev, 13) = 4 /\ Get(curr, 13) = 6
    /\ Get(prev, 16) = 7 /\ Get(curr, 16) = 5

\* C4: with the standard PieceMap, no unresolved step so far and castling
\* possible in the game, a grid pair showing king e1-g1 and rook h1-f1 is
\* decoded as the castling move, not as ??.
C4_CastlingDecoded ==
    [][(/\ TagStepTaken
        /\ piece_map = StandardMap
        /\ \A i \in 1..Len(moves_san) : moves_san[i] # Unknown
        /\ ShowsShortCastle(prev_positions, GridToPositions(last_obs'))
        /\ IsLegal([board EXCEPT !.castling = rights], Mv(4, 6, NoPromo)))
       => (/\ LastEntry(moves_san').kind = "san"
           /\ LastEntry(moves_san').castle = "O-O")]_vars

\* the capture a grid pair shows: one id vanished and one other id moved onto
\* the square it stood on; NoMove when the pair shows no such thing
ShownCapture(prev, curr) ==
    LET moved == MovedIds(prev, curr)
        pairs == {av \in moved \X moved :
                     /\ av[1] # av[2]
                     /\ moved = {av[1], av[2]}
                     /\ Get(curr, av[2]) = NoSq
                     /\ Get(prev, av[1]) # NoSq
                     /\ Get(curr, av[1]) = Get(prev, av[2])}
    IN IF pairs = {} THEN NoMove
       ELSE LET av == CHOOSE x \in pairs : TRUE
            IN Mv(Get(prev, av[1]), Get(curr, av[1]), NoPromo)

\* C5: a grid pair in which one id vanishes and exactly one other id moves
\* onto its square is decoded as that capture whenever the capture is legal
\* on the canonical board, not as ??.
C5_CaptureDecoded ==
    [][(/\ TagStepTaken
        /\ ShownCapture(prev_positions, GridToPositions(last_obs')) # NoMove
        /\ IsCapture(board, ShownCapture(prev_positions, GridToPositions(last_obs')))
        /\ IsLegal(board, ShownCapture(prev_positions, GridToPositions(last_obs'))))
       => LastEntry(moves_san') =
             San(board, ShownCapture(prev_positions, GridToPositions(last_obs')))]_vars

\* C6: an unresolved step appends ??, leaves the canonical board as it was
\* and takes the current grid as the reference for the next step.
C6_UncertainKeepsBoard ==
    [][(TagStepTaken /\ LastEntry(moves_san') = Unknown)
       => (/\ board' = board
           /\ prev_positions' = GridToPositions(last_obs'))]_vars

\* C6 witness: after at least one resolved move, a step in which pieces moved
\* was left unresolved and the reference follows the grid
C6_Witness ==
    /\ decoder = "tag"
    /\ Len(moves_san) >= 2
    /\ LastEntry(moves_san) = Unknown
    /\ board # InitBoardFromMap(piece_map)
    /\ LastEntry(uncertain).moved_ids # {}
    /\ prev_positions = GridToPositions(last_obs)

\* C7: for n >= 1 observations each decoder returns n-1 entries, entry k being
\* the result of decoding the pair of observations k and k+1.
C7_EntriesMirrorPairs ==
    /\ dpc # "raised"
    /\ (dpc = "returned" /\ n_grids >= 1)
          => /\ Len(moves_san) = n_grids - 1
             /\ Len(entry_pair) = n_grids - 1
             /\ \A k \in 1..Len(entry_pair) : entry_pair[k] = k

\* C15: for each observation pair decode_moves selects a legal move of the
\* canonical board whose expected occupancy grid differs from the observed
\* grid in the least number of cells among all legal moves of the position.
C15_SelectsClosestMove ==
    [][(decoder = "occupancy" /\ board' # board)
       => \E m \in LegalMoves(board) :
             /\ board' = Push(board, m)
             /\ \A o \in LegalMoves(board) :
                   OccupancyDistance(FenToOccupancy(Push(board, m)), last_obs')
                       <= OccupancyDistance(FenToOccupancy(Push(board, o)), last_obs')]_vars

\* C15 witness: in the endgame position a capture with promotion was observed
\* and the move played on the canonical board matches the observation exactly
C15_Witness ==
    /\ decoder = "occupancy"
    /\ scenario = "endgame"
    /\ board # InitialFen(scenario)
    /\ board.pieces[56] \in WhiteSyms
    /\ OccupancyDistance(FenToOccupancy(board), last_obs) = 0

(***************************************************************************)
(* The run: analyze_command (otbreview/cli.py) calling analyze_video       *)
(* (otbreview/pipeline/main.py), with the board locator of                 *)
(* otbreview/pipeline/board_detect.py.                                     *)
(***************************************************************************)
MaxStable == 3

NotSampled == -1
Running == -1
NoError == [type |-> "", at |-> ""]
NoLocate == [frame |-> -1]

WrittenFiles == {"board_ids.json", "game.pgn", "analysis.json"}
OutputFiles == WrittenFiles \cup {"move_trace.json", "index.html"}

\* marker ids detectMarkers may report for a frame
MarkerSets == {{}, {0, 1, 2}, {0, 1, 2, 3}, {1, 2, 3, 4}, {0, 1, 2, 3, 4}}

\* detect_aruco_corners returns a dict (TRUE) or None (FALSE)
detect_aruco_corners(ids) ==
    IF Cardinality(ids) < 4 THEN FALSE ELSE {0, 1, 2, 3} \subseteq ids

\* _detect_without_markers: the largest quadrilateral contour, else the whole image
DetectWithoutMarkers(quad) == IF quad THEN "contour" ELSE "whole_image"

\* _detect_with_markers
DetectWithMarkers(ids, quad) ==
    IF detect_aruco_corners(ids) THEN "markers" ELSE DetectWithoutMarkers(quad)

\* detect_and_warp_board: how the frame was rectified, "none" for (None, None)
detect_and_warp_board(readable, markers, ids, quad) ==
    IF ~readable THEN "none"
    ELSE IF markers THEN DetectWithMarkers(ids, quad)
    ELSE DetectWithoutMarkers(quad)

\* detect_and_warp_board_debug
detect_and_warp_board_debug(readable, markers, ids) ==
    IF ~readable \/ ~markers \/ ~detect_aruco_corners(ids) THEN "none" ELSE "markers"

TooFewBelowOne(n) == n < 1

\* main.py:54  len(stable_frames) < 2
TooFew(n) == n < 2

\* the entries of a move list that generate_pgn plays
Accepted(ms) == {k \in 1..Len(ms) : ms[k] = "san"}

PipelineInit ==
    /\ TagIdle
    /\ SamplerIdle
    /\ DecodeIdle
    /\ PgnIdle
    /\ ReviewIdle
    /\ MapIdle
    /\ ListenerIdle
    /\ ppc = "cli"
    /\ input_exists \in BOOLEAN
    /\ use_markers \in BOOLEAN
    /\ engine_found \in BOOLEAN
    /\ prior \in {"absent", "old"}
    /\ stable_count = NotSampled
    /\ frame_i = 0
    /\ last_locate = NoLocate
    /\ warped_boards = <<>>
    /\ moves = <<>>
    /\ files = [f \in OutputFiles |-> prior]
    /\ error = NoError
    /\ exit_status = Running

\* analyze_command up to the call of analyze_video (cli.py:13-36)
CliStart ==
    /\ ppc = "cli"
    /\ IF input_exists
       THEN ppc' = "sample" /\ UNCHANGED exit_status
       ELSE ppc' = "exited" /\ exit_status' = 1
    /\ UNCHANGED <<input_exists, use_markers, engine_found, prior, stable_count, frame_i,
                   last_locate, warped_boards, moves, files, error>>
    /\ UNCHANGED otherThanPipeline

\* step 1 of analyze_video (main.py:46-55)
Sample ==
    /\ ppc = "sample"
    /\ \E opened \in BOOLEAN, n \in 0..MaxStable :
          IF ~opened
          THEN /\ ppc' = "failed"
               /\ error' = [type |-> "ValueError", at |-> "open"]
               /\ UNCHANGED stable_count
          ELSE /\ stable_count' = n
               /\ IF TooFew(n)
                  THEN ppc' = "failed" /\ error' = [type |-> "ValueError", at |-> "sample"]
                  ELSE ppc' = "locate" /\ UNCHANGED error
    /\ UNCHANGED <<input_exists, use_markers, engine_found, prior, frame_i, last_locate,
                   warped_boards, moves, files, exit_status>>
    /\ UNCHANGED otherThanPipeline

\* one pass of the loop of step 2 (main.py:61-79)
Locate ==
    /\ ppc = "locate"
    /\ frame_i < stable_count
    /\ \E readable \in BOOLEAN, ids \in MarkerSets, quad \in BOOLEAN :
          LET warped == detect_and_warp_board(readable, use_markers, ids, quad)
          IN /\ last_locate' = [frame |-> frame_i, readable |-> readable, ids |-> ids,
                                quad |-> quad, warped |-> warped,
                                debug_warped |->
                                    detect_and_warp_board_debug(readable, use_markers, ids)]
             /\ IF warped = "none"
                THEN /\ ppc' = "failed"
                     /\ error' = [type |-> "ValueError", at |-> "locate"]
                     /\ UNCHANGED <<warped_boards, frame_i>>
                ELSE /\ warped_boards' = Append(warped_boards, frame_i)
                     /\ frame_i' = frame_i + 1
                     /\ UNCHANGED <<ppc, error>>
    /\ UNCHANGED <<input_exists, use_markers, engine_found, prior, stable_count, moves, files,
                   exit_status>>
    /\ UNCHANGED otherThanPipeline

\* step 3 and the start of step 4: the tags of every rectified board are read
\* and board_ids.json is opened for writing (main.py:81-119)
Tags ==
    /\ ppc = "locate"
    /\ frame_i = stable_count
    /\ ppc' = "w_board_ids"
    /\ files' = [files EXCEPT !["board_ids.json"] = "partial"]
    /\ UNCHANGED <<input_exists, use_markers, engine_found, prior, stable_count, frame_i,
                   last_locate, warped_boards, moves, error, exit_status>>
    /\ UNCHANGED otherThanPipeline

\* json.dump and close of board_ids.json, infer_moves_from_id_grids,
\* move_trace.json, generate_pgn and the opening of game.pgn (main.py:120-142)
Decode ==
    /\ ppc = "w_board_ids"
    /\ \E ms \in [1..(Len(warped_boards) - 1) -> {"san", "??"}] : moves' = ms
    /\ ppc' = "w_pgn"
    /\ files' = [files EXCEPT !["board_ids.json"] = "new", !["move_trace.json"] = "new",
                              !["game.pgn"] = "partial"]
    /\ UNCHANGED <<input_exists, use_markers, engine_found, prior, stable_count, frame_i,
                   last_locate, warped_boards, error, exit_status>>
    /\ UNCHANGED otherThanPipeline

\* game.pgn is closed; analyze_game, classify_moves, find_key_moves and the
\* opening of analysis.json (main.py:143-172).  analyze_game raises when no
\* engine is found (analyze.py:59-64) and, having pushed a move, when it asks
\* for the SAN of that move (analyze.py:96-104)
Analyze ==
    /\ ppc = "w_pgn"
    /\ IF ~engine_found
       THEN /\ ppc' = "failed"
            /\ error' = [type |-> "RuntimeError", at |-> "analyze"]
            /\ files' = [files EXCEPT !["game.pgn"] = "new"]
       ELSE IF Accepted(moves) # {}
       THEN /\ ppc' = "failed"
            /\ error' = [type |-> "AssertionError", at |-> "analyze"]
            /\ files' = [files EXCEPT !["game.pgn"] = "new"]
       ELSE /\ ppc' = "w_analysis"
            /\ files' = [files EXCEPT !["game.pgn"] = "new", !["analysis.json"] = "partial"]
            /\ UNCHANGED error
    /\ UNCHANGED <<input_exists, use_markers, engine_found, prior, stable_count, frame_i,
                   last_locate, warped_boards, moves, exit_status>>
    /\ UNCHANGED otherThanPipeline

\* analysis.json is closed and the web replay is generated (main.py:173-184)
Web ==
    /\ ppc = "w_analysis"
    /\ ppc' = "done"
    /\ files' = [files EXCEPT !["analysis.json"] = "new", !["index.html"] = "new"]
    /\ UNCHANGED <<input_exists, use_markers, engine_found, prior, stable_count, frame_i,
                   last_locate, warped_boards, moves, error, exit_status>>
    /\ UNCHANGED otherThanPipeline

\* analyze_command after analyze_video returned or raised (cli.py:37-45)
CliExit ==
    /\ ppc \in {"done", "failed"}
    /\ ppc' = "exited"
    /\ exit_status' = IF ppc = "failed" THEN 1 ELSE 0
    /\ UNCHANGED <<input_exists, use_markers, engine_found, prior, stable_count, frame_i,
                   last_locate, warped_boards, moves, files, error>>
    /\ UNCHANGED otherThanPipeline

PipelineNext == CliStart \/ Sample \/ Locate \/ Tags \/ Decode \/ Analyze \/ Web \/ CliExit

SpecPipeline == PipelineInit /\ [][PipelineNext]_vars

(***************************************************************************)
(* Properties of the run.                                                  *)
(***************************************************************************)
\* C12: when the sampler returns fewer than two stable frames, analyze_video
\* fails before board detection starts, writes none of board_ids.json,
\* game.pgn and analysis.json, and the command line exits with a non-zero
\* status.
C12_TooFewFramesFails ==
    (stable_count # NotSampled /\ stable_count < 2)
        => /\ ppc \in {"failed", "exited"}
           /\ error = [type |-> "ValueError", at |-> "sample"]
           /\ last_locate = NoLocate
           /\ \A f \in WrittenFiles : files[f] = prior
           /\ ppc = "exited" => exit_status = 1

\* C12 witness: a run whose sampler returned one frame has exited
C12_Witness == ppc = "exited" /\ stable_count = 1 /\ exit_status = 1

\* C13: with use_markers enabled, a frame in which the corner markers 0, 1, 2
\* and 3 are not all detected gets no board from the locator: neither
\* detect_and_warp_board nor detect_and_warp_board_debug rectifies it.
C13_NoFallbackWithMarkers ==
    (last_locate # NoLocate /\ use_markers /\ ~({0, 1, 2, 3} \subseteq last_locate.ids))
        => /\ last_locate.warped = "none"
           /\ last_locate.debug_warped = "none"

\* C14: a board-detection failure on a stable frame other than the first does
\* not abort the run.
C14_LaterFailureNotFatal ==
    (last_locate # NoLocate /\ last_locate.frame > 0 /\ last_locate.warped = "none")
        => ppc \notin {"failed", "exited"}

\* C20: when no engine binary can be found the run still completes: once
\* game.pgn is written no error ends the run, and when the command exits its
\* status is 0 and the remaining outputs are written as well.
C20_NoEngineStillCompletes ==
    (~engine_found /\ files["game.pgn"] = "new") =>
        /\ error = NoError
        /\ ppc # "failed"
        /\ ppc = "exited" => (exit_status = 0 /\ \A f \in OutputFiles : files[f] = "new")

\* C21: at every point of a run, each of board_ids.json, game.pgn and
\* analysis.json is seen by a reader of the run directory either as its
\* complete previous version or as its complete new version, never partially
\* written.
C21_OutputsAtomic ==
    \A f \in WrittenFiles : files[f] \in {prior, "new"}

(***************************************************************************)
(* generate_pgn and generate_moves_json (otbreview/pipeline/pgn.py).       *)
(***************************************************************************)
MaxOffScript == 2

\* games the entries of a move list are taken from, as (from, to) squares
FoolsMate == <<<<13, 21>>, <<52, 36>>, <<14, 30>>, <<59, 31>>>>

ScholarsMate == <<<<12, 28>>, <<52, 36>>, <<5, 26>>, <<57, 42>>, <<3, 39>>, <<62, 45>>, <<39, 53>>>>

\* 1.e3 a5 2.Qh5 Ra6 3.Qxa5 h5 4.h4 Rah6 5.Qxc7 f6 6.Qxd7+ Kf7 7.Qxb7 Qd3
\* 8.Qxb8 Qh7 9.Qxc8 Kg6 10.Qe6
LoydStalemate ==
    <<<<12, 20>>, <<48, 32>>, <<3, 39>>, <<56, 40>>, <<39, 32>>, <<55, 39>>, <<15, 31>>,
    <<40, 47>>, <<32, 50>>, <<53, 45>>, <<50, 51>>, <<60, 53>>, <<51, 49>>, <<59, 19>>,
    <<49, 57>>, <<19, 55>>, <<57, 58>>, <<53, 46>>, <<58, 44>>>>

\* a game that trades every piece and pawn
BareKings ==
    <<<<8, 16>>, <<53, 45>>, <<12, 20>>, <<50, 42>>, <<4, 12>>, <<55, 47>>, <<15, 23>>,
    <<54, 38>>, <<9, 25>>, <<42, 34>>, <<25, 34>>, <<51, 35>>, <<2, 9>>, <<58, 23>>,
    <<7, 23>>, <<57, 51>>, <<9, 45>>, <<62, 45>>, <<23, 47>>, <<63, 47>>, <<14, 22>>,
    <<51, 34>>, <<11, 19>>, <<34, 19>>, <<3, 19>>, <<60, 53>>, <<19, 35>>, <<45, 35>>,
    <<5, 23>>, <<35, 20>>, <<12, 20>>, <<47, 23>>, <<6, 23>>, <<38, 30>>, <<16, 24>>,
    <<30, 23>>, <<1, 16>>, <<56, 57>>, <<20, 29>>, <<59, 43>>, <<29, 20>>, <<43, 16>>,
    <<0, 16>>, <<57, 59>>, <<24, 32>>, <<59, 27>>, <<20, 27>>, <<49, 41>>, <<32, 41>>,
    <<48, 41>>, <<16, 8>>, <<52, 44>>, <<27, 36>>, <<23, 15>>, <<10, 18>>, <<61, 54>>,
    <<36, 29>>, <<54, 18>>, <<8, 40>>, <<53, 54>>, <<40, 41>>, <<18, 4>>, <<41, 44>>,
    <<4, 13>>, <<44, 36>>, <<13, 22>>, <<29, 22>>, <<54, 45>>, <<22, 15>>, <<45, 36>>>>

\* the knights go out and back: Nf3 Nf6 Ng1 Ng8, again and again
KnightShuffle ==
    [k \in 1..152 |-> IF k % 4 = 1 THEN <<6, 21>> ELSE IF k % 4 = 2 THEN <<62, 45>>
                      ELSE IF k % 4 = 3 THEN <<21, 6>> ELSE <<45, 62>>]

ScriptNames == {"fools_mate", "scholars_mate", "stalemate", "bare_kings", "knight_shuffle"}

ScriptOf(name) ==
    IF name = "fools_mate" THEN FoolsMate
    ELSE IF name = "scholars_mate" THEN ScholarsMate
    ELSE IF name = "stalemate" THEN LoydStalemate
    ELSE IF name = "bare_kings" THEN BareKings
    ELSE KnightShuffle

\* chess.Board(): the board with halfmove clock and fullmove number
StartPosition == [b |-> BoardStart, halfmove |-> 0, fullmove |-> 1]

\* Board.is_zeroing: a pawn move or a capture
IsZeroing(b, m) == TypeOf(b.pieces[m.from]) = "p" \/ IsCapture(b, m)

\* Board.push with the two counters
PushPosition(pos, m) ==
    [b |-> Push(pos.b, m),
     halfmove |-> IF IsZeroing(pos.b, m) THEN 0 ELSE pos.halfmove + 1,
     fullmove |-> IF pos.b.turn = "b" THEN pos.fullmove + 1 ELSE pos.fullmove]

\* Board.is_checkmate, Board.is_stalemate
is_checkmate(b) == IsCheck(b) /\ ~HasLegalMove(b)
is_stalemate(b) == ~IsCheck(b) /\ ~HasLegalMove(b)

\* Board.is_seventy_five_moves
is_seventy_five_moves(pos) == pos.halfmove >= 150 /\ HasLegalMove(pos.b)

IsDark(s) == (FileOf(s) + RankOf(s)) % 2 = 0

\* Board.has_insufficient_material(color)
has_insufficient_material(P, c) ==
    LET own == {s \in Squares : ColorOf(P[s]) = c}
        has(set, ty) == \E s \in set : TypeOf(P[s]) = ty
        all == {s \in Squares : P[s] # "."}
        bishops == {s \in all : TypeOf(P[s]) = "b"}
    IN IF has(own, "p") \/ has(own, "r") \/ has(own, "q") THEN FALSE
       ELSE IF has(own, "n")
       THEN /\ Cardinality(own) <= 2
            /\ \A s \in all \ own : TypeOf(P[s]) \in {"k", "q"}
       ELSE IF has(own, "b")
       THEN /\ (\A s \in bishops : IsDark(s)) \/ (\A s \in bishops : ~IsDark(s))
            /\ ~has(all, "p")
            /\ ~has(all, "n")
       ELSE TRUE

\* Board.is_insufficient_material
is_insufficient_material(P) ==
    has_insufficient_material(P, "w") /\ has_insufficient_material(P, "b")

\* there is a legal en passant capture
HasLegalEnPassant(b) ==
    b.ep # NoSq /\ \E f \in Squares : IsLegal(b, Mv(f, b.ep, NoPromo)) /\ IsEnPassant(b, Mv(f, b.ep, NoPromo))

\* Board.fen(): the en passant square is written only when a capture onto it is legal
Fen(pos) ==
    [placement |-> pos.b.pieces, turn |-> pos.b.turn, castling |-> pos.b.castling,
     ep |-> IF HasLegalEnPassant(pos.b) THEN pos.b.ep ELSE NoSq,
     halfmove |-> pos.halfmove, fullmove |-> pos.fullmove]

\* chess.Board(fen)
ParseFen(fen) ==
    [b |-> [pieces |-> fen.placement, turn |-> fen.turn, castling |-> fen.castling, ep |-> fen.ep],
     halfmove |-> fen.halfmove, fullmove |-> fen.fullmove]

\* Move.uci() and Move.from_uci
Uci(m) == <<m.from, m.to, m.promo>>
FromUci(u) == Mv(u[1], u[2], u[3])

\* entries of a move list other than SANs and placeholders
Garbage == [Unknown EXCEPT !.kind = "garbage"]
\* a UCI string: origin square (held in dfile), target square, promotion
UciEntry(m) == [Unknown EXCEPT !.kind = "uci", !.dfile = m.from, !.to = m.to, !.promo = m.promo]
EntryMove(entry) == Mv(entry.dfile, entry.to, entry.promo)

\* Board.parse_san: the move, or NoMove for ValueError.  A UCI string reads as
\* the SAN of a pawn move from its origin square.
parse_san(b, entry) ==
    IF entry.kind = "san"
    THEN LET ms == SanMoves(b, entry)
         IN IF Cardinality(ms) = 1 THEN CHOOSE m \in ms : TRUE ELSE NoMove
    ELSE IF entry.kind = "uci"
    THEN LET m == EntryMove(entry)
         IN IF TypeOf(b.pieces[m.from]) = "p" /\ IsLegal(b, m) THEN m ELSE NoMove
    ELSE NoMove

\* pgn.py:72-78  the fallback of generate_moves_json
from_uci_fallback(b, entry) ==
    IF entry.kind = "uci" /\ IsLegal(b, EntryMove(entry)) THEN EntryMove(entry) ELSE NoMove

MateResultSwapped(turn) == IF turn = "w" THEN "1-0" ELSE "0-1"

\* pgn.py:47-51
MateResult(turn) == IF turn = "w" THEN "0-1" ELSE "1-0"

\* pgn.py:46-54
ResultHeader(pos) ==
    IF is_checkmate(pos.b) THEN MateResult(pos.b.turn)
    ELSE IF is_stalemate(pos.b) \/ is_insufficient_material(pos.b.pieces)
            \/ is_seventy_five_moves(pos)
    THEN "1/2-1/2"
    ELSE "*"

TraceFenBefore(before, after) == Fen(before)

\* pgn.py:84  board.fen() after the push
TraceFen(before, after) == Fen(after)

\* the move the script plays next, if any
Scripted == IF ply < Len(ScriptOf(script))
            THEN Mv(ScriptOf(script)[ply + 1][1], ScriptOf(script)[ply + 1][2], NoPromo)
            ELSE NoMove

\* the next entry of the move list: the SAN of the scripted move, the same
\* move as a UCI string, the placeholder, or a string that is no move at all
NextEntries ==
    (IF Scripted # NoMove THEN {San(position.b, Scripted)} ELSE {})
    \cup (IF n_offscript < MaxOffScript
          THEN {Unknown, Garbage} \cup (IF Scripted # NoMove THEN {UciEntry(Scripted)} ELSE {})
          ELSE {})

\* pgn.py:39-45 and pgn.py:67-79  the move read from one entry, NoMove when skipped
Parsed(entry) ==
    IF entry = Unknown THEN NoMove
    ELSE IF parse_san(position.b, entry) # NoMove THEN parse_san(position.b, entry)
    ELSE IF pfunc = "generate_moves_json" THEN from_uci_fallback(position.b, entry)
    ELSE NoMove

\* pgn.py:81-84  the record appended for an accepted move
TraceEntry(pos, m) ==
    [san |-> San(pos.b, m), uci |-> Uci(m), fen |-> TraceFen(pos, PushPosition(pos, m))]

PgnInit ==
    /\ pfunc \in {"generate_pgn", "generate_moves_json"}
    /\ script \in ScriptNames
    /\ ply = 0
    /\ position = StartPosition
    /\ n_entries = 0
    /\ n_offscript = 0
    /\ trace = <<>>
    /\ result = "*"
    /\ gpc = "loop"
    /\ TagIdle
    /\ SamplerIdle
    /\ DecodeIdle
    /\ PipelineIdle
    /\ MapIdle
    /\ ListenerIdle
    /\ ReviewIdle

\* one iteration of `for move_san in moves`
FeedEntry ==
    /\ gpc = "loop"
    /\ \E entry \in NextEntries :
          LET m == Parsed(entry)
          IN /\ n_entries' = n_entries + 1
             /\ n_offscript' = IF Scripted # NoMove /\ entry = San(position.b, Scripted)
                               THEN n_offscript ELSE n_offscript + 1
             /\ IF m = NoMove
                THEN UNCHANGED <<ply, position, trace>>
                ELSE /\ ply' = ply + 1
                     /\ position' = PushPosition(position, m)
                     /\ trace' = IF pfunc = "generate_moves_json"
                                 THEN Append(trace, TraceEntry(position, m))
                                 ELSE trace
    /\ UNCHANGED <<pfunc, script, result, gpc>>
    /\ UNCHANGED otherThanPgn

\* the list is exhausted: pgn.py:46-56 and pgn.py:86
PgnReturn ==
    /\ gpc = "loop"
    /\ gpc' = "returned"
    /\ result' = IF pfunc = "generate_pgn" THEN ResultHeader(position) ELSE result
    /\ UNCHANGED <<pfunc, script, ply, position, n_entries, n_offscript, trace>>
    /\ UNCHANGED otherThanPgn

PgnNext == FeedEntry \/ PgnReturn

SpecPgn == PgnInit /\ [][PgnNext]_vars

(***************************************************************************)
(* Properties of the PGN writer.                                           *)
(***************************************************************************)

\* C16: when generate_pgn returns, the Result header is 1-0 exactly when the
\* position after the accepted moves is checkmate with Black to move, 0-1
\* exactly when it is checkmate with White to move, 1/2-1/2 exactly when it is
\* stalemate, insufficient material or a 75-move draw, and * in every other
\* case, the empty move list included.
C16_ResultHeader ==
    (gpc = "returned" /\ pfunc = "generate_pgn") =>
        LET b == position.b
            mate == IsCheck(b) /\ ~HasLegalMove(b)
            draw == \/ ~IsCheck(b) /\ ~HasLegalMove(b)
                    \/ is_insufficient_material(b.pieces)
                    \/ position.halfmove >= 150 /\ HasLegalMove(b)
        IN /\ result = "1-0" <=> (mate /\ b.turn = "b")
           /\ result = "0-1" <=> (mate /\ b.turn = "w")
           /\ result = "1/2-1/2" <=> draw
           /\ result = "*" <=> (~mate /\ ~draw)
           /\ n_entries = 0 => result = "*"

\* C16 witness: generate_pgn has returned for a list with skipped entries whose
\* accepted moves end in checkmate
C16_Witness ==
    /\ gpc = "returned"
    /\ pfunc = "generate_pgn"
    /\ n_offscript > 0
    /\ is_checkmate(position.b)
    /\ position.b.turn = "b"
    /\ result = "1-0"

\* C17: in the trace of generate_moves_json every entry's fen is the position
\* reached by playing the entry's uci from the previous entry's fen, the
\* standard starting position for the first entry.
C17_TraceFenChain ==
    pfunc = "generate_moves_json" =>
        \A i \in 1..Len(trace) :
            LET prev == IF i = 1 THEN Fen(StartPosition) ELSE trace[i - 1].fen
            IN trace[i].fen = Fen(PushPosition(ParseFen(prev), FromUci(trace[i].uci)))

\* C17 witness: a trace of a list with skipped entries whose last move was a
\* double pawn step that left no en passant capture
C17_Witness ==
    /\ pfunc = "generate_moves_json"
    /\ Len(trace) >= 2
    /\ n_entries > Len(trace)
    /\ position.b.ep # NoSq
    /\ trace[Len(trace)].fen.ep = NoSq

(***************************************************************************)
(* Review of a game: analyze_game and _extract_eval (analyze.py),          *)
(* classify_moves (classify.py) and find_key_moves (keymoves.py), applied  *)
(* one after the other as analyze_video does (main.py:148-158).            *)
(* Floats are kept exact as fractions num/den; None is the fraction 0/0.   *)
(***************************************************************************)
MaxPlies == 2

\* centipawn scores an engine reports, for the side to move
CpValues == {-15000, -300, -60, 0, 60, 300, 15000}
\* forced mate in so many moves, for (positive) or against the side to move
MateValues == {-1, 1}

EngineScores == [kind : {"cp"}, v : CpValues] \cup [kind : {"mate"}, v : MateValues]

Ratio(n, d) == [num |-> n, den |-> d]
NoneValue == Ratio(0, 0)
NoMate == 0

Minus(a, b) ==
    IF a.den = b.den THEN Ratio(a.num - b.num, a.den)
    ELSE Ratio(a.num * b.den - b.num * a.den, a.den * b.den)
AbsR(a) == Ratio(Abs(a.num), a.den)
\* a <= n, a > n and a > b for fractions with positive denominators
LeqInt(a, n) == a.num <= n * a.den
GtInt(a, n) == a.num > n * a.den
GtR(a, b) == a.num * b.den > b.num * a.den

\* board.turn after k plies from the starting position
TurnAt(k) == IF k % 2 = 0 THEN "w" ELSE "b"

\* analyze.py:116-140
extract_eval(score, turn) ==
    IF score.kind = "mate"
    THEN [cp |-> NoneValue, mate |-> IF turn = "w" THEN score.v ELSE 0 - score.v]
    ELSE [cp |-> Ratio(IF turn = "b" THEN 0 - score.v ELSE score.v, 100), mate |-> NoMate]

\* analyze.py:78-111  one record per position; entry k + 1 is ply k
AnalysisOf(sc) ==
    [k \in 1..Len(sc) |->
        [move_number |-> k - 1,
         eval_cp |-> extract_eval(sc[k], TurnAt(k - 1)).cp,
         eval_mate |-> extract_eval(sc[k], TurnAt(k - 1)).mate]]

\* arithmetic on None raises TypeError
HasNone(an) == \E k \in 1..Len(an) : an[k].eval_cp = NoneValue

\* classify.py:13-19
THRESHOLDS == [best |-> 0, good |-> 50, inaccuracy |-> 100, mistake |-> 200]

\* classify.py:52-60  i is the index in the list (0 is the initial position)
CpLoss(an, i) ==
    IF i % 2 = 1
    THEN Minus(an[i].eval_cp, an[i + 1].eval_cp)
    ELSE Minus(an[i + 1].eval_cp, an[i].eval_cp)

\* classify.py:93-103
is_book_move == FALSE

\* classify.py:67-80
Classification(cp_loss) ==
    IF is_book_move THEN "book"
    ELSE IF LeqInt(cp_loss, THRESHOLDS.best) THEN "best"
    ELSE IF LeqInt(cp_loss, THRESHOLDS.good) THEN "good"
    ELSE IF LeqInt(cp_loss, THRESHOLDS.inaccuracy) THEN "inaccuracy"
    ELSE IF LeqInt(cp_loss, THRESHOLDS.mistake) THEN "mistake"
    ELSE "blunder"

\* classify.py:36-91
classify_moves(an) ==
    IF Len(an) < 2 THEN an
    ELSE [k \in 1..Len(an) |->
            IF k = 1
            THEN an[k] @@ [classification |-> "initial", cp_loss |-> Ratio(0, 1), is_book |-> FALSE]
            ELSE an[k] @@ [classification |-> Classification(CpLoss(an, k - 1)),
                           cp_loss |-> CpLoss(an, k - 1),
                           is_book |-> is_book_move]]

\* dict.get with a default
Get2(rec, key, default) == IF key \in DOMAIN rec THEN rec[key] ELSE default

\* keymoves.py:43-45  the swing of list index i (entry i + 1) from its predecessor
Swing(an, i) == AbsR(Minus(an[i + 1].eval_cp, an[i].eval_cp))

\* keymoves.py:32-37
LastBook(an) ==
    LET books == {k \in 1..Len(an) : Get2(an[k], "is_book", FALSE)}
    IN IF books = {} THEN {}
       ELSE {an[CHOOSE k \in books : \A o \in books : o <= k].move_number}

\* keymoves.py:40-50  the first index with the largest swing, kept only if the
\* swing exceeds 100
MaxSwing(an) ==
    LET idx == {i \in 1..(Len(an) - 1) :
                   /\ GtInt(Swing(an, i), 0)
                   /\ \A o \in 1..(Len(an) - 1) :
                         /\ ~GtR(Swing(an, o), Swing(an, i))
                         /\ o < i => GtR(Swing(an, i), Swing(an, o))}
    IN {an[i + 1].move_number : i \in {j \in idx : GtInt(Swing(an, j), 100)}}

\* keymoves.py:53-57
BadMoves(an) ==
    {an[k].move_number : k \in {j \in 1..Len(an) :
        /\ Get2(an[j], "classification", "") \in {"blunder", "mistake"}
        /\ an[j].move_number > 0}}

\* sorted(list(set(...)))
RECURSIVE Sorted(_)
Sorted(S) ==
    IF S = {} THEN <<>>
    ELSE LET least == CHOOSE x \in S : \A y \in S : x <= y
         IN <<least>> \o Sorted(S \ {least})

\* keymoves.py:26-62
find_key_moves(an) ==
    IF Len(an) < 2 THEN <<>>
    ELSE Sorted(LastBook(an) \cup MaxSwing(an) \cup BadMoves(an))

ReviewInit ==
    /\ scores \in UNION {[1..n -> EngineScores] : n \in 1..(MaxPlies + 1)}
    /\ analysis = <<>>
    /\ classified = <<>>
    /\ key_moves = <<>>
    /\ rpc = "analyse"
    /\ TagIdle
    /\ SamplerIdle
    /\ DecodeIdle
    /\ PipelineIdle
    /\ MapIdle
    /\ ListenerIdle
    /\ PgnIdle

\* analyze_game returns its records.  It asks for board.san(move) after the
\* push (analyze.py:97, 105), which fails san()'s assertion; the records are
\* returned only where assertions are disabled.
AnalyzeGame ==
    /\ rpc = "analyse"
    /\ analysis' = AnalysisOf(scores)
    /\ rpc' = "classify"
    /\ UNCHANGED <<scores, classified, key_moves>>
    /\ UNCHANGED otherThanReview

\* analyze_game fails at board.san(move) for a game with at least one move
AnalyzeGameRaises ==
    /\ rpc = "analyse"
    /\ Len(scores) > 1
    /\ rpc' = "raised"
    /\ UNCHANGED <<scores, analysis, classified, key_moves>>
    /\ UNCHANGED otherThanReview

\* main.py:155
ClassifyMoves ==
    /\ rpc = "classify"
    /\ IF Len(analysis) >= 2 /\ HasNone(analysis)
       THEN rpc' = "raised" /\ UNCHANGED classified
       ELSE rpc' = "key_moves" /\ classified' = classify_moves(analysis)
    /\ UNCHANGED <<scores, analysis, key_moves>>
    /\ UNCHANGED otherThanReview

\* main.py:158
FindKeyMoves ==
    /\ rpc = "key_moves"
    /\ IF Len(classified) >= 2 /\ HasNone(classified)
       THEN rpc' = "raised" /\ UNCHANGED key_moves
       ELSE rpc' = "returned" /\ key_moves' = find_key_moves(classified)
    /\ UNCHANGED <<scores, analysis, classified>>
    /\ UNCHANGED otherThanReview

ReviewNext == AnalyzeGame \/ AnalyzeGameRaises \/ ClassifyMoves \/ FindKeyMoves

SpecReview == ReviewInit /\ [][ReviewNext]_vars

(***************************************************************************)
(* Properties of the review.                                               *)
(***************************************************************************)

\* the engine's centipawn score of the position after k plies, seen from side c
CpFor(k, c) == IF TurnAt(k) = c THEN scores[k + 1].v ELSE 0 - scores[k + 1].v

\* by how many centipawns the evaluation of the mover of ply i dropped with it
CpDrop(i) == CpFor(i - 1, TurnAt(i - 1)) - CpFor(i, TurnAt(i - 1))

Ascending(seq) == \A i \in 1..(Len(seq) - 1) : seq[i] < seq[i + 1]

\* C19: when find_key_moves has returned for an analysis of at least two
\* entries in which some evaluation changes between consecutive plies, a ply
\* with the largest absolute change from its predecessor is in the returned
\* list, and the list is strictly ascending.
C19_LargestSwingIsKey ==
    (/\ rpc = "returned"
     /\ Len(classified) >= 2
     /\ \E i \in 1..(Len(classified) - 1) : GtInt(Swing(classified, i), 0)) =>
        /\ Ascending(key_moves)
        /\ \E i \in 1..(Len(classified) - 1) :
              /\ \A o \in 1..(Len(classified) - 1) :
                    ~GtR(Swing(classified, o), Swing(classified, i))
              /\ \E k \in 1..Len(key_moves) : key_moves[k] = classified[i + 1].move_number

(***************************************************************************)
(* Further properties of the debug frame sampler.                          *)
(***************************************************************************)

\* C22: the loop of extract_stable_frames_debug terminates on every finite
\* video, for every choice of the parameters, although the reader is set back
\* to the middle frame of each stable run.
C22_DebugLoopTerminates == <>(spc = "done")

\* C22 witness: the loop has ended after two captures, having read more frames
\* than the reader's final position accounts for
C22_Witness ==
    /\ spc = "done"
    /\ sp.sampler = "debug"
    /\ Cardinality(Captures) >= 2
    /\ frame_idx > cap_pos

\* indices of the frames of the video that down-sampling keeps
SampledIndices == {k \in 0..(Len(video) - 1) : k % skip_frames = 0}

\* C26: in extract_stable_frames_debug the frame counter equals the index of
\* the frame the reader delivers next, after any number of captures, so that no
\* frame is read twice, and motion.csv has exactly one row per sampled frame of
\* the video.
C26_CounterFollowsReader ==
    sp.sampler = "debug" =>
        /\ (spc = "loop" /\ cap_pos < Len(video)) => frame_idx = cap_pos
        /\ spc = "done" => Len(motion_data) = Cardinality(SampledIndices)

(***************************************************************************)
(* Further properties of detect_piece_tags.                                *)
(***************************************************************************)

\* the detection a step of either loop looks at
StepDet == IF tpc = "step1" THEN best_detections[ti] ELSE Step2Input[ti]

\* the detection it meets in the dict, if any (index 0: none)
StepPrevIndex ==
    IF tpc = "step1" THEN IndexOfCell(best_by_cell, <<StepDet.row, StepDet.col>>)
    ELSE IndexOfId(best_by_id, StepDet.marker_id)

\* C23: a step of conflict resolution that drops a detection appends exactly
\* one conflict_log entry, which names the dropped detection as discarded and
\* the detection that stays in the dict as kept (id or cell, and score); a
\* step that drops nothing appends nothing.
C23_LogNamesDropped ==
    [][(ti' = ti + 1 /\ tpc' = tpc) =>
          IF StepPrevIndex = 0
          THEN conflict_log' = conflict_log
          ELSE LET e == conflict_log'[Len(conflict_log')]
                   old == IF tpc = "step1" THEN best_by_cell[StepPrevIndex]
                          ELSE best_by_id[StepPrevIndex]
                   kept == IF tpc = "step1" THEN best_by_cell'[StepPrevIndex]
                           ELSE best_by_id'[StepPrevIndex]
                   dropped == IF kept = StepDet THEN old ELSE StepDet
               IN /\ Len(conflict_log') = Len(conflict_log) + 1
                  /\ e.kept_score = kept.score
                  /\ e.discarded_score = dropped.score
                  /\ IF tpc = "step1"
                     THEN /\ e.reason = "cell"
                          /\ e.kept_id = kept.marker_id
                          /\ e.discarded_id = dropped.marker_id
                     ELSE /\ e.reason = "id"
                          /\ e.kept_cell = <<kept.row, kept.col>>
                          /\ e.discarded_cell = <<dropped.row, dropped.col>>]_vars

\* ids among the detections of the winning candidate
DetectedIds == {best_detections[k].marker_id : k \in 1..Len(best_detections)}

\* C27: conflict resolution removes no id altogether: every id among the
\* winning candidate's detections is in exactly one cell of the returned grid.
C27_NoIdLost ==
    tpc = "done" => \A id \in DetectedIds : Cardinality(CellsHolding(id)) = 1

(***************************************************************************)
(* Reading the piece map: load_piece_id_map, then _init_board_from_map as  *)
(* infer_moves_from_id_grids calls it (otbreview/pipeline/tag_decode.py).  *)
(***************************************************************************)
MaxEdits == 2

\* piece_id_map.json holding the standard map; keys are the keys each value has
StandardJson ==
    [pid \in 1..32 |-> [symbol |-> StandardMap[pid].symbol,
                        square |-> StandardMap[pid].square,
                        keys |-> {"symbol", "square"}]]

\* ids, squares and symbols used to alter the file: pawn a2, king e1, rook h8;
\* a2 (taken) and e4 (free); a queen and a letter that is no piece
EditIds == {1, 13, 32}
EditSquares == {Sq(0, 1), Sq(4, 3)}
EditSymbols == {"Q", "x"}

\* the files one change away from m
Edits(m) ==
    UNION {{[k \in DOMAIN m \ {i} |-> m[k]]}
           \cup {[m EXCEPT ![i].square = sq] : sq \in EditSquares}
           \cup {[m EXCEPT ![i].symbol = sy] : sy \in EditSymbols}
           \cup {[m EXCEPT ![i].keys = {key}] : key \in {"symbol", "square"}}
           : i \in EditIds \cap DOMAIN m}

RECURSIVE EditedMaps(_)
EditedMaps(n) ==
    IF n = 0 THEN {StandardJson}
    ELSE EditedMaps(n - 1) \cup UNION {Edits(m) : m \in EditedMaps(n - 1)}

\* tag_decode.py:20-21  some value lacks "symbol" or "square"
MissingKey(data) == \E pid \in DOMAIN data : data[pid].keys # {"symbol", "square"}

\* tag_decode.py:22-27  the dict that is returned
ParsedOf(data) == [pid \in DOMAIN data |-> [symbol |-> data[pid].symbol, square |-> data[pid].square]]

\* tag_decode.py:36  chess.Piece.from_symbol raises ValueError for other letters
BadSymbol(map) == \E pid \in DOMAIN map : map[pid].symbol \notin WhiteSyms \cup BlackSyms

MapInit ==
    /\ map_data \in EditedMaps(MaxEdits)
    /\ parsed = <<>>
    /\ canonical = <<>>
    /\ mpc = "load"
    /\ TagIdle
    /\ SamplerIdle
    /\ DecodeIdle
    /\ PipelineIdle
    /\ PgnIdle
    /\ ReviewIdle
    /\ ListenerIdle

\* load_piece_id_map (tag_decode.py:14-27)
LoadPieceIdMap ==
    /\ mpc = "load"
    /\ IF MissingKey(map_data)
       THEN mpc' = "rejected" /\ UNCHANGED parsed
       ELSE mpc' = "loaded" /\ parsed' = ParsedOf(map_data)
    /\ UNCHANGED <<map_data, canonical>>
    /\ UNCHANGED otherThanMap

\* _init_board_from_map (tag_decode.py:30-43)
InitBoard ==
    /\ mpc = "loaded"
    /\ IF BadSymbol(parsed)
       THEN mpc' = "raised" /\ UNCHANGED canonical
       ELSE mpc' = "ready" /\ canonical' = InitBoardFromMap(parsed)
    /\ UNCHANGED <<map_data, parsed>>
    /\ UNCHANGED otherThanMap

MapNext == LoadPieceIdMap \/ InitBoard

SpecMap == MapInit /\ [][MapNext]_vars

\* 32 entries with both keys, distinct squares, the standard starting position
WellFormedMap(data) ==
    /\ Cardinality(DOMAIN data) = 32
    /\ ~MissingKey(data)
    /\ \A a, b \in DOMAIN data : a # b => data[a].square # data[b].square
    /\ \A sq \in Squares :
          IF StartPieces[sq] = "." THEN \A pid \in DOMAIN data : data[pid].square # sq
          ELSE \E pid \in DOMAIN data :
                  data[pid].square = sq /\ data[pid].symbol = StartPieces[sq]

\* C24: load_piece_id_map returns a map only if it has 32 entries with
\* distinct ids and distinct squares that form the standard starting position;
\* for every other file the canonical board is never built.
C24_OnlyStandardMapAccepted ==
    mpc \in {"loaded", "ready", "raised"} => WellFormedMap(map_data)

(***************************************************************************)
(* Further properties of the decoders.                                     *)
(***************************************************************************)

\* C25: a step of decode_moves that finds a best move pushes it once on the
\* canonical board, completes without an error, and records the SAN the move
\* has in the position before it was played.
C25_SanBeforePush ==
    [][(decoder = "occupancy" /\ board' # board)
       => /\ dpc' # "raised"
          /\ \E m \in LegalMoves(board) :
                /\ board' = Push(board, m)
                /\ moves_san' = Append(moves_san, San(board, m))]_vars

\* the pass that follows a `??` reads a pair in which one id changed its
\* square, and the change is a legal move of the game on the filmed board
SingleMoveAfterUncertain ==
    /\ TagStepTaken
    /\ Len(moves_san) >= 1
    /\ LastEntry(moves_san) = Unknown
    /\ actual # NoGame
    /\ actual' # NoGame
    /\ actual' # actual
    /\ Cardinality(MovedIds(GridToPositions(last_obs), GridToPositions(last_obs'))) = 1

\* C28: an uncertain step does not force the next one to be uncertain: when
\* the grid pair after a `??` shows a single piece making a move that is
\* legal in the actual game position, the entry appended for it is a move,
\* not `??`
C28_UncertainDoesNotSpread ==
    [][SingleMoveAfterUncertain => LastEntry(moves_san') # Unknown]_vars

MaxClock == 3
MaxArrivals == 3

NoFile == 0
Contents == {1, 2}

\* sorted(inbox.iterdir()): upper case sorts before lower case
NameOrder == <<"B.MP4", "a.mp4", "c.mov", "notes.txt">>
Names == {NameOrder[i] : i \in 1..Len(NameOrder)}

\* otb_listener.py:29
VIDEO_EXTENSIONS == {".mp4", ".mov", ".m4v", ".avi", ".mkv"}

\* path.suffix.lower()
Suffix(path) ==
    CASE path = "B.MP4" -> ".mp4"
      [] path = "a.mp4" -> ".mp4"
      [] path = "c.mov" -> ".mov"
      [] OTHER -> ".txt"

\* sha256sum: different contents have different digests
sha256sum(content) == <<"5e88", "b4c9">>[content]

\* datetime.now().strftime("%Y%m%d-%H%M%S"): the second the clock is in
Timestamp(t) == t \div 2

\* work/<timestamp>/game<suffix>
Dest(timestamp, suffix) == <<timestamp, suffix>>
Dests == {Dest(Timestamp(t), Suffix(n)) : t \in 0..MaxClock, n \in Names}

ListenerInit ==
    /\ inbox = [n \in Names |-> NoFile]
    /\ listing = <<>>
    /\ events = <<>>
    /\ clock \in {0, 1}
    /\ work = [d \in Dests |-> NoFile]
    /\ manifest = [t \in {Timestamp(c) : c \in 0..MaxClock} |-> "none"]
    /\ processed = <<>>
    /\ n_arrived = 0
    /\ lpc = "starting"
    /\ TagIdle
    /\ SamplerIdle
    /\ DecodeIdle
    /\ PipelineIdle
    /\ PgnIdle
    /\ ReviewIdle
    /\ MapIdle

\* move_and_process(path) called when the clock shows `now`
MoveAndProcess(path, now) ==
    IF inbox[path] = NoFile
    THEN UNCHANGED <<inbox, work, manifest, processed>>
    ELSE IF Suffix(path) \notin VIDEO_EXTENSIONS
    THEN UNCHANGED <<inbox, work, manifest, processed>>
    ELSE LET file_hash == sha256sum(inbox[path])
             timestamp == Timestamp(now)
             dest == Dest(timestamp, Suffix(path))
         IN IF file_hash \in DOMAIN processed
            THEN UNCHANGED <<inbox, work, manifest, processed>>
            ELSE /\ work' = [work EXCEPT ![dest] = inbox[path]]
                 /\ inbox' = [inbox EXCEPT ![path] = NoFile]
                 /\ manifest' = [manifest EXCEPT ![timestamp] = file_hash]
                 /\ processed' = processed @@
                                 (file_hash :> [source |-> path, destination |-> dest,
                                                timestamp |-> timestamp])

\* a video (or another file) is copied into the inbox; the observer, once
\* started, queues an event for it
FileArrives ==
    /\ lpc \in {"starting", "existing", "watching"}
    /\ n_arrived < MaxArrivals
    /\ \E path \in Names, content \in Contents :
          /\ inbox[path] = NoFile
          /\ inbox' = [inbox EXCEPT ![path] = content]
          /\ events' = IF lpc = "watching" THEN Append(events, path) ELSE events
    /\ n_arrived' = n_arrived + 1
    /\ UNCHANGED <<listing, clock, work, manifest, processed, lpc>>
    /\ UNCHANGED otherThanListener

\* half a second passes
Tick ==
    /\ lpc \in {"starting", "existing", "watching"}
    /\ clock < MaxClock
    /\ clock' = clock + 1
    /\ UNCHANGED <<inbox, listing, events, work, manifest, processed, n_arrived, lpc>>
    /\ UNCHANGED otherThanListener

\* main: load_processed, then process_existing lists the inbox
ListInbox ==
    /\ lpc = "starting"
    /\ listing' = SelectSeq(NameOrder, LAMBDA n : inbox[n] # NoFile)
    /\ lpc' = "existing"
    /\ UNCHANGED <<inbox, events, clock, work, manifest, processed, n_arrived>>
    /\ UNCHANGED otherThanListener

\* one pass of the loop of process_existing
ProcessExisting ==
    /\ lpc = "existing"
    /\ listing # <<>>
    /\ MoveAndProcess(Head(listing), clock)
    /\ listing' = Tail(listing)
    /\ UNCHANGED <<events, clock, n_arrived, lpc>>
    /\ UNCHANGED otherThanListener

\* main: with --oneshot the listener ends, otherwise the observer starts
StartObserver ==
    /\ lpc = "existing"
    /\ listing = <<>>
    /\ \E oneshot \in BOOLEAN : lpc' = IF oneshot THEN "exited" ELSE "watching"
    /\ UNCHANGED <<inbox, listing, events, clock, work, manifest, processed, n_arrived>>
    /\ UNCHANGED otherThanListener

\* InboxHandler.on_created / on_moved: sleep half a second, then
\* move_and_process
OnCreated ==
    /\ lpc = "watching"
    /\ events # <<>>
    /\ clock < MaxClock
    /\ clock' = clock + 1
    /\ MoveAndProcess(Head(events), clock + 1)
    /\ events' = Tail(events)
    /\ UNCHANGED <<listing, n_arrived, lpc>>
    /\ UNCHANGED otherThanListener

ListenerNext ==
    FileArrives \/ Tick \/ ListInbox \/ ProcessExisting \/ StartObserver \/ OnCreated

SpecListener == ListenerInit /\ [][ListenerNext]_vars

\* C30: two videos with different content never get the same destination
\* path, and every hash in the processed database still has its own file at
\* the destination recorded for it
C30_NoVideoOverwritten ==
    lpc # "idle" =>
        /\ \A h1, h2 \in DOMAIN processed :
              h1 # h2 => processed[h1].destination # processed[h2].destination
        /\ \A h \in DOMAIN processed :
              /\ work[processed[h].destination] # NoFile
              /\ sha256sum(work[processed[h].destination]) = h

====
